---- MODULE Spec2Model ----
(***************************************************************************)
(* Data structures and sort functions of algs4-rust:                       *)
(*   searching: RedBlackBST, LLRB, BST (bst.rs, bst2.rs), AVL (avl2.rs),   *)
(*              LinearProbingHashST;                                       *)
(*   fundamentals: the three union-find structures, Queue;                 *)
(*   sorting: MaxPQ, MinPQ, IndexMinPQ and the sort functions;             *)
(*   graphs: Digraph, Topological, TopologicalX, KosarajuSCC, NaiveSCC.    *)
(* Each structure has its own specification; the variables of the others   *)
(* keep their initial value in it.                                         *)
(* A Link (Option<Box<Node>>) is a sequence: << >> is None and <<node>> is *)
(* Some(node); a node is a record holding its children as Links.           *)
(***************************************************************************)
EXTENDS Integers, Sequences, FiniteSets, TLC

VARIABLES
    root,       \* RedBlackBST.root
    set_root,   \* LLRB.root
    last,       \* history: key -> value of the most recent RedBlackBST::put
    overwrote,  \* history: the latest RedBlackBST::put replaced another value
    added,      \* history: keys handed to LLRB::put
    again,      \* history: the latest LLRB::put was given a key already added
    asc_root,   \* LLRB.root of the table filled by tests::height
    asc_i,      \* loop variable i of tests::height
    b2_root,    \* bst2 BST.root
    b2_map,     \* history: the key-value pairs put and not deleted since
    b2_keys,    \* the keys collected from the latest keys(), None before it
    b1_root,    \* bst.rs BST.root
    avl_root,   \* AVL.root
    qf,         \* the UF of quick_find_uf.rs
    qu,         \* the UF of quick_union_uf.rs
    wqu,        \* the UF of weighted_quick_union_uf.rs
    uf_parts,   \* history: the classes of the sites under the unions performed
    q_heap,     \* the nodes of the Queue: address -> node, or Freed
    queue,      \* the Queue (first, last, n)
    q_pending,  \* history: the items enqueued and not dequeued yet, oldest first
    q_ret,      \* what the latest dequeue returned, None before it
    q_exp,      \* history: the head of q_pending at the latest dequeue, None if it was empty
    ipq,        \* the IndexMinPQ
    ipq_map,    \* history: index -> latest key, for the indices inserted and not deleted
    ipq_ret,    \* what the latest del_min returned, None before it
    maxpq,      \* the MaxPQ
    minpq,      \* the MinPQ
    pq_bag,     \* history: how many times each item is held, by the queue the run works on
    pq_ret,     \* what the latest del_max or del_min returned, None before it
    pq_exp,     \* history: what pq_bag required that call to return
    pq_halved,  \* history: a del_min has halved the Vec of the MinPQ
    lp,         \* the LinearProbingHashST
    lp_hash,    \* the hash function: key -> s.finish(), the same for the whole run
    lp_map,     \* history: the key-value pairs put and not deleted since
    lp_stage,   \* history: 1 once a delete has halved the table, 2 once a later delete has moved a key of a cluster
    sort_in,    \* the slice handed to a sort function
    sort_by,    \* the sort function that ran, "" before it
    sort_out,   \* None before the run, Some(the slice afterwards) after it
    dg,         \* the Digraph
    topo,       \* None, or Some(the Topological made from dg)
    topo_x,     \* None, or Some(the TopologicalX made from dg)
    kscc,       \* None, or Some(the KosarajuSCC made from dg)
    nscc        \* None, or Some(the NaiveSCC made from dg)

\* the variables of each structure, and for each structure the others
rb_vars == <<root, set_root, last, overwrote, added, again, asc_root, asc_i>>
bst2_vars == <<b2_root, b2_map, b2_keys>>
bst_vars == <<b1_root>>
avl_vars == <<avl_root>>
uf_vars == <<qf, qu, wqu, uf_parts>>
queue_vars == <<q_heap, queue, q_pending, q_ret, q_exp>>
ipq_vars == <<ipq, ipq_map, ipq_ret>>
pq_vars == <<maxpq, minpq, pq_bag, pq_ret, pq_exp, pq_halved>>
lp_vars == <<lp, lp_hash, lp_map, lp_stage>>
sort_vars == <<sort_in, sort_by, sort_out>>
dg_vars == <<dg, topo, topo_x, kscc, nscc>>

vars == <<rb_vars, bst2_vars, bst_vars, avl_vars, uf_vars, queue_vars, ipq_vars, pq_vars, lp_vars, sort_vars, dg_vars>>

not_rb == <<bst2_vars, bst_vars, avl_vars, uf_vars, queue_vars, ipq_vars, pq_vars, lp_vars, sort_vars, dg_vars>>
not_bst2 == <<rb_vars, bst_vars, avl_vars, uf_vars, queue_vars, ipq_vars, pq_vars, lp_vars, sort_vars, dg_vars>>
not_bst == <<rb_vars, bst2_vars, avl_vars, uf_vars, queue_vars, ipq_vars, pq_vars, lp_vars, sort_vars, dg_vars>>
not_avl == <<rb_vars, bst2_vars, bst_vars, uf_vars, queue_vars, ipq_vars, pq_vars, lp_vars, sort_vars, dg_vars>>
not_uf == <<rb_vars, bst2_vars, bst_vars, avl_vars, queue_vars, ipq_vars, pq_vars, lp_vars, sort_vars, dg_vars>>
not_queue == <<rb_vars, bst2_vars, bst_vars, avl_vars, uf_vars, ipq_vars, pq_vars, lp_vars, sort_vars, dg_vars>>
not_ipq == <<rb_vars, bst2_vars, bst_vars, avl_vars, uf_vars, queue_vars, pq_vars, lp_vars, sort_vars, dg_vars>>
not_pq == <<rb_vars, bst2_vars, bst_vars, avl_vars, uf_vars, queue_vars, ipq_vars, lp_vars, sort_vars, dg_vars>>
not_lp == <<rb_vars, bst2_vars, bst_vars, avl_vars, uf_vars, queue_vars, ipq_vars, pq_vars, sort_vars, dg_vars>>
not_sort == <<rb_vars, bst2_vars, bst_vars, avl_vars, uf_vars, queue_vars, ipq_vars, pq_vars, lp_vars, dg_vars>>
not_dg == <<rb_vars, bst2_vars, bst_vars, avl_vars, uf_vars, queue_vars, ipq_vars, pq_vars, lp_vars, sort_vars>>

\* ---- bounds ----
MaxKey == 7          \* RedBlackBST keys are 1..MaxKey
NumVals == 2         \* values are 1..NumVals
MaxSetKey == 7       \* LLRB keys are 1..MaxSetKey
HeightKeys == 12     \* RedBlackBST keys of the height runs are 1..HeightKeys
HeightSetKeys == 12  \* LLRB keys of the height runs are 1..HeightSetKeys
Bst2Keys == 4        \* keys of the BST of bst2.rs are 1..Bst2Keys
Bst2Vals == 2        \* its values are 1..Bst2Vals
BstKeys == 4         \* keys of the BST of bst.rs are 1..BstKeys
BstVals == 2         \* its values are 1..BstVals
AvlKeys == 7         \* keys of the AVL tree are 1..AvlKeys
AvlVals == 1         \* its values are 1..AvlVals
UfN == 4             \* the union-find structures have the sites 0..UfN-1
QueueCap == 3        \* the Queue holds at most QueueCap nodes, at the addresses 1..QueueCap
QueueItems == 2      \* the items enqueued are 1..QueueItems
IpqMaxN == 4         \* the IndexMinPQ is created with max_n = IpqMaxN
IpqKeys == 2         \* its keys are 1..IpqKeys
MaxPqN == 4          \* the MaxPQ is created with max_n = MaxPqN
MinPqHeld == 5       \* the MinPQ holds at most MinPqHeld items
PqItems == 3         \* the items of both queues are 1..PqItems
LpKeys == 3          \* keys of the LinearProbingHashST are 1..LpKeys
LpVals == 2          \* its values are 1..LpVals
LpHashes == 2        \* the hash function takes the values 0..LpHashes-1
LpCap == 1           \* the table is created with a capacity in 1..LpCap
SortLen == 6         \* longest slice handed to a sort function
SortItems == 3       \* distinct items in a slice
DgV == 3             \* most vertices of a digraph
DgE == 4             \* most edges of a digraph
DupKeys == 5         \* keys of the runs that put a key again

\* the loop bound of tests::height, `for i in 0..200`
HeightTestN == 200

Keys == 1..MaxKey
Vals == 1..NumVals
SetKeys == 1..MaxSetKey
\* keys asked about: every key of the table and one below and one above
Probes == 0..(MaxKey + 1)
SetProbes == 0..(MaxSetKey + 1)

None == << >>
Some(node) == <<node>>
\* the outcome of a call that does not return
Panic == <<-1, -1>>
\* the same where the value is a struct
PanicStruct == [panic |-> TRUE]
Max(a, b) == IF a >= b THEN a ELSE b

\* ------------------------------------------------------------------------
\* RedBlackBST
\* ------------------------------------------------------------------------
flip(c) == IF c = "Red" THEN "Black" ELSE "Red"

new(k, v) == [key |-> k, val |-> v, left |-> None, right |-> None,
              color |-> "Red", n |-> 1]

is_red(x) == IF x # None THEN x[1].color = "Red" ELSE FALSE

_size(x) == IF x # None THEN x[1].n ELSE 0

\* Node::rotate_left consumes the node h and returns the new local root; its
\* assert_eq!(x.color, Red) is the guard of its only caller, fix_left
rotate_left(h) ==
    IF h.right # None
    THEN LET x  == h.right[1]
             h1 == [h EXCEPT !.right = x.left, !.color = "Red",
                             !.n = 1 + _size(h.left) + _size(x.left)]
         IN  [x EXCEPT !.color = h.color, !.n = h.n, !.left = Some(h1)]
    ELSE h

rotate_right(h) ==
    IF h.left # None
    THEN LET x  == h.left[1]
             h1 == [h EXCEPT !.left = x.right, !.color = "Red",
                             !.n = 1 + _size(x.right) + _size(h.right)]
         IN  [x EXCEPT !.color = h.color, !.n = h.n, !.right = Some(h1)]
    ELSE h

flip_link(x) == IF x # None THEN Some([x[1] EXCEPT !.color = flip(x[1].color)]) ELSE None

flip_color(h) ==
    [h EXCEPT !.color = flip(h.color), !.left = flip_link(h.left),
              !.right = flip_link(h.right)]

\* the three fix-up steps of _put and the size refresh, applied to `node`
\* after the recursive call returned
fix_left(node) ==
    IF is_red(node.right) /\ ~is_red(node.left) THEN rotate_left(node) ELSE node

fix_right(node) ==
    IF is_red(node.left)
    THEN IF is_red(node.left[1].left) THEN rotate_right(node) ELSE node
    ELSE node

fix_flip(node) ==
    IF is_red(node.left) /\ is_red(node.right) THEN flip_color(node) ELSE node

fix_size(node) == [node EXCEPT !.n = 1 + _size(node.left) + _size(node.right)]

\* _put whose Equal arm puts the new node in the place of the old one
RECURSIVE _put_replaces_node(_, _)
_put_replaces_node(new_node, h) ==
    IF h # None
    THEN LET node == h[1]
             d == IF new_node.key < node.key
                    THEN [node EXCEPT !.left = _put_replaces_node(new_node, node.left)]
                  ELSE IF new_node.key > node.key
                    THEN [node EXCEPT !.right = _put_replaces_node(new_node, node.right)]
                  ELSE new_node
         IN  Some(fix_size(fix_flip(fix_right(fix_left(d)))))
    ELSE Some(new_node)

\* _put whose Equal arm keeps the old value
RECURSIVE _put_keeps_value(_, _)
_put_keeps_value(new_node, h) ==
    IF h # None
    THEN LET node == h[1]
             d == IF new_node.key < node.key
                    THEN [node EXCEPT !.left = _put_keeps_value(new_node, node.left)]
                  ELSE IF new_node.key > node.key
                    THEN [node EXCEPT !.right = _put_keeps_value(new_node, node.right)]
                  ELSE node
         IN  Some(fix_size(fix_flip(fix_right(fix_left(d)))))
    ELSE Some(new_node)

RECURSIVE _put(_, _)
_put(new_node, h) ==
    IF h # None
    THEN LET node == h[1]
             d == IF new_node.key < node.key
                    THEN [node EXCEPT !.left = _put(new_node, node.left)]
                  ELSE IF new_node.key > node.key
                    THEN [node EXCEPT !.right = _put(new_node, node.right)]
                  ELSE [node EXCEPT !.val = new_node.val]
         IN  Some(fix_size(fix_flip(fix_right(fix_left(d)))))
    ELSE Some(new_node)

\* put that leaves the root the color _put gave it
put_keeps_root_color(t, k, v) == _put(new(k, v), t)

\* RedBlackBST::put up to the assert: the root after the call
put(t, k, v) ==
    LET r == _put(new(k, v), t)
    IN  IF r # None THEN Some([r[1] EXCEPT !.color = "Black"]) ELSE r

size(t) == _size(t)

RECURSIVE _get(_, _)
_get(x, k) ==
    IF x # None
    THEN IF k = x[1].key THEN Some(x[1].val)
         ELSE IF k < x[1].key THEN _get(x[1].left, k)
         ELSE _get(x[1].right, k)
    ELSE None

get(t, k) == _get(t, k)

\* Option::is_none of get's result
contains(t, k) == get(t, k) = None

RECURSIVE _height(_)
_height(x) ==
    IF x # None THEN 1 + Max(_height(x[1].left), _height(x[1].right)) ELSE -1

height(t) == _height(t)

\* ---- ordered symbol table methods ----
RECURSIVE _min(_)
_min(x) ==
    IF x # None
    THEN IF x[1].left # None THEN _min(x[1].left) ELSE Some(x[1].key)
    ELSE None

\* min that fails on an empty table instead of returning None
min_underflow(t) == IF t = None THEN Panic ELSE _min(t)

min(t) == _min(t)

RECURSIVE _max(_)
_max(x) ==
    IF x # None
    THEN IF x[1].right # None THEN _max(x[1].right) ELSE Some(x[1].key)
    ELSE None

max(t) == _max(t)

\* _floor whose Greater arm never looks into the right subtree
RECURSIVE _floor_no_right(_, _)
_floor_no_right(x, k) ==
    IF x # None
    THEN IF k = x[1].key THEN Some(x[1].key)
         ELSE IF k < x[1].key THEN _floor_no_right(x[1].left, k)
         ELSE Some(x[1].key)
    ELSE None

RECURSIVE _floor(_, _)
_floor(x, k) ==
    IF x # None
    THEN IF k = x[1].key THEN Some(x[1].key)
         ELSE IF k < x[1].key THEN _floor(x[1].left, k)
         ELSE LET x_right == _floor(x[1].right, k)
              IN  IF x_right # None THEN x_right ELSE Some(x[1].key)
    ELSE None

floor(t, k) == _floor(t, k)

RECURSIVE _ceiling(_, _)
_ceiling(x, k) ==
    IF x # None
    THEN IF k = x[1].key THEN Some(x[1].key)
         ELSE IF k > x[1].key THEN _ceiling(x[1].right, k)
         ELSE LET x_left == _ceiling(x[1].left, k)
              IN  IF x_left # None THEN x_left ELSE Some(x[1].key)
    ELSE None

ceiling(t, k) == _ceiling(t, k)

\* _select whose Less arm forgets to skip the node itself
RECURSIVE _select_off_by_one(_, _)
_select_off_by_one(x, rank) ==
    IF x # None
    THEN LET left_size == _size(x[1].left)
         IN  IF left_size = rank THEN Some(x[1].key)
             ELSE IF left_size > rank THEN _select_off_by_one(x[1].left, rank)
             ELSE _select_off_by_one(x[1].right, rank - left_size)
    ELSE None

\* `rank` is a usize: the subtraction of the Less arm is only reached with
\* left_size < rank, so it never wraps
RECURSIVE _select(_, _)
_select(x, rank) ==
    IF x # None
    THEN LET left_size == _size(x[1].left)
         IN  IF left_size = rank THEN Some(x[1].key)
             ELSE IF left_size > rank THEN _select(x[1].left, rank)
             ELSE _select(x[1].right, rank - left_size - 1)
    ELSE None

select(t, r) == IF r >= size(t) THEN None ELSE _select(t, r)

\* _rank whose Greater arm forgets to count the node itself
RECURSIVE _rank_off_by_one(_, _)
_rank_off_by_one(x, k) ==
    IF x # None
    THEN LET left_size == _size(x[1].left)
         IN  IF k = x[1].key THEN left_size
             ELSE IF k < x[1].key THEN _rank_off_by_one(x[1].left, k)
             ELSE left_size + _rank_off_by_one(x[1].right, k)
    ELSE 0

RECURSIVE _rank(_, _)
_rank(x, k) ==
    IF x # None
    THEN LET left_size == _size(x[1].left)
         IN  IF k = x[1].key THEN left_size
             ELSE IF k < x[1].key THEN _rank(x[1].left, k)
             ELSE 1 + left_size + _rank(x[1].right, k)
    ELSE 0

rank(t, k) == _rank(t, k)

\* ---- integrity check ----
\* min and max are Option<&K>
RECURSIVE _is_bst(_, _, _)
_is_bst(x, lo, hi) ==
    IF x # None
    THEN IF lo # None /\ x[1].key <= lo[1] THEN FALSE
         ELSE IF hi # None /\ x[1].key >= hi[1] THEN FALSE
         ELSE /\ _is_bst(x[1].left, lo, Some(x[1].key))
              /\ _is_bst(x[1].right, Some(x[1].key), hi)
    ELSE TRUE

is_bst(t) == _is_bst(t, None, None)

RECURSIVE _is_size_consistent(_)
_is_size_consistent(x) ==
    IF x # None
    THEN IF x[1].n # _size(x[1].left) + _size(x[1].right) + 1 THEN FALSE
         ELSE _is_size_consistent(x[1].left) /\ _is_size_consistent(x[1].right)
    ELSE TRUE

is_size_consistent(t) == _is_size_consistent(t)

\* the while loop of is_balanced: Black nodes on the leftmost path
RECURSIVE left_blacks(_)
left_blacks(x) ==
    IF x # None
    THEN (IF x[1].color = "Black" THEN 1 ELSE 0) + left_blacks(x[1].left)
    ELSE 0

RECURSIVE _is_balanced(_, _)
_is_balanced(x, black) ==
    IF x # None
    THEN LET b == IF x[1].color = "Black" THEN black - 1 ELSE black
         IN  _is_balanced(x[1].left, b) /\ _is_balanced(x[1].right, b)
    ELSE black = 0

is_balanced(t) == _is_balanced(t, left_blacks(t))

RECURSIVE _is_2_3(_)
_is_2_3(x) ==
    IF x # None
    THEN IF is_red(x[1].right) THEN FALSE
         ELSE IF x[1].color = "Red" /\ is_red(x[1].left) THEN FALSE
         ELSE _is_2_3(x[1].left) /\ _is_2_3(x[1].right)
    ELSE TRUE

is_2_3(t) == _is_2_3(t)

check(t) == is_bst(t) /\ is_size_consistent(t) /\ is_balanced(t) /\ is_2_3(t)

\* ------------------------------------------------------------------------
\* LLRB (a node has no value and no subtree count)
\* ------------------------------------------------------------------------
llrb_flip(c) == IF c = "Red" THEN "Black" ELSE "Red"

llrb_new(k) == [key |-> k, left |-> None, right |-> None, color |-> "Red"]

llrb_is_red(x) == IF x # None THEN x[1].color = "Red" ELSE FALSE

\* rotate_left that leaves x Red instead of giving it the color of h
llrb_rotate_left_keeps_red(h) ==
    IF h.right # None
    THEN LET x  == h.right[1]
             h1 == [h EXCEPT !.right = x.left, !.color = "Red"]
         IN  [x EXCEPT !.left = Some(h1)]
    ELSE h

llrb_rotate_left(h) ==
    IF h.right # None
    THEN LET x  == h.right[1]
             h1 == [h EXCEPT !.right = x.left, !.color = "Red"]
         IN  [x EXCEPT !.color = h.color, !.left = Some(h1)]
    ELSE h

llrb_rotate_right(h) ==
    IF h.left # None
    THEN LET x  == h.left[1]
             h1 == [h EXCEPT !.left = x.right, !.color = "Red"]
         IN  [x EXCEPT !.color = h.color, !.right = Some(h1)]
    ELSE h

llrb_flip_link(x) ==
    IF x # None THEN Some([x[1] EXCEPT !.color = llrb_flip(x[1].color)]) ELSE None

llrb_flip_color(h) ==
    [h EXCEPT !.color = llrb_flip(h.color), !.left = llrb_flip_link(h.left),
              !.right = llrb_flip_link(h.right)]

\* _put without the rotate_left step
llrb_fix_left_skipped(node) == node

llrb_fix_left(node) ==
    IF llrb_is_red(node.right) /\ ~llrb_is_red(node.left)
    THEN llrb_rotate_left(node) ELSE node

llrb_fix_right(node) ==
    IF llrb_is_red(node.left)
    THEN IF llrb_is_red(node.left[1].left) THEN llrb_rotate_right(node) ELSE node
    ELSE node

llrb_fix_flip(node) ==
    IF llrb_is_red(node.left) /\ llrb_is_red(node.right)
    THEN llrb_flip_color(node) ELSE node

\* the Equal arm returns the node at once, before the fix-up steps
RECURSIVE llrb__put(_, _)
llrb__put(new_node, h) ==
    IF h # None
    THEN LET node == h[1]
         IN  IF new_node.key = node.key THEN Some(node)
             ELSE LET d == IF new_node.key < node.key
                             THEN [node EXCEPT !.left = llrb__put(new_node, node.left)]
                           ELSE [node EXCEPT !.right = llrb__put(new_node, node.right)]
                  IN  Some(llrb_fix_flip(llrb_fix_right(llrb_fix_left(d))))
    ELSE Some(new_node)

\* LLRB::put up to the check: the root after the call
llrb_put(t, k) ==
    LET r == llrb__put(llrb_new(k), t)
    IN  IF r # None THEN Some([r[1] EXCEPT !.color = "Black"]) ELSE r

\* get_height counting nodes instead of links on the longest path
RECURSIVE get_height_nodes(_)
get_height_nodes(x) ==
    IF x # None
    THEN 1 + Max(get_height_nodes(x[1].left), get_height_nodes(x[1].right))
    ELSE 0

RECURSIVE get_height(_)
get_height(x) ==
    IF x # None THEN 1 + Max(get_height(x[1].left), get_height(x[1].right)) ELSE -1

llrb_height(t) == get_height(t)

RECURSIVE _contain(_, _)
_contain(x, k) ==
    IF x # None
    THEN IF k = x[1].key THEN TRUE
         ELSE IF k < x[1].key THEN _contain(x[1].left, k)
         ELSE _contain(x[1].right, k)
    ELSE FALSE

llrb_contains(t, k) == _contain(t, k)

RECURSIVE llrb__is_bst(_, _, _)
llrb__is_bst(x, lo, hi) ==
    IF x # None
    THEN IF lo # None /\ x[1].key <= lo[1] THEN FALSE
         ELSE IF hi # None /\ x[1].key >= hi[1] THEN FALSE
         ELSE /\ llrb__is_bst(x[1].left, lo, Some(x[1].key))
              /\ llrb__is_bst(x[1].right, Some(x[1].key), hi)
    ELSE TRUE

llrb_is_bst(t) == llrb__is_bst(t, None, None)

RECURSIVE llrb_left_blacks(_)
llrb_left_blacks(x) ==
    IF x # None
    THEN (IF x[1].color = "Black" THEN 1 ELSE 0) + llrb_left_blacks(x[1].left)
    ELSE 0

RECURSIVE llrb__is_balanced(_, _)
llrb__is_balanced(x, black) ==
    IF x # None
    THEN LET b == IF x[1].color = "Black" THEN black - 1 ELSE black
         IN  llrb__is_balanced(x[1].left, b) /\ llrb__is_balanced(x[1].right, b)
    ELSE black = 0

llrb_is_balanced(t) == llrb__is_balanced(t, llrb_left_blacks(t))

RECURSIVE llrb__is_2_3(_)
llrb__is_2_3(x) ==
    IF x # None
    THEN IF llrb_is_red(x[1].right) THEN FALSE
         ELSE IF x[1].color = "Red" /\ llrb_is_red(x[1].left) THEN FALSE
         ELSE llrb__is_2_3(x[1].left) /\ llrb__is_2_3(x[1].right)
    ELSE TRUE

llrb_is_2_3(t) == llrb__is_2_3(t)

\* LLRB::check panics unless all three hold
llrb_check(t) == llrb_is_bst(t) /\ llrb_is_balanced(t) /\ llrb_is_2_3(t)

\* the tables one call of a mutating method of RedBlackBST can leave behind:
\* put is the only mutating method, delete is a TODO
mutations(t) == { put(t, k, v) : k \in Keys, v \in Vals }

\* ------------------------------------------------------------------------
\* BST of bst2.rs (a node has no color)
\* ------------------------------------------------------------------------
bst2_new(k, v) == [key |-> k, val |-> v, left |-> None, right |-> None, n |-> 1]

bst2__size(x) == IF x # None THEN x[1].n ELSE 0

bst2_size(t) == bst2__size(t)

RECURSIVE bst2__get(_, _)
bst2__get(x, k) ==
    IF x # None
    THEN IF k < x[1].key THEN bst2__get(x[1].left, k)
         ELSE IF k > x[1].key THEN bst2__get(x[1].right, k)
         ELSE Some(x[1].val)
    ELSE None

bst2_get(t, k) == bst2__get(t, k)

\* Option::is_some of get's result
bst2_contains(t, k) == bst2_get(t, k) # None

RECURSIVE bst2__is_bst(_, _, _)
bst2__is_bst(x, lo, hi) ==
    IF x # None
    THEN IF lo # None /\ x[1].key <= lo[1] THEN FALSE
         ELSE IF hi # None /\ x[1].key >= hi[1] THEN FALSE
         ELSE /\ bst2__is_bst(x[1].left, lo, Some(x[1].key))
              /\ bst2__is_bst(x[1].right, Some(x[1].key), hi)
    ELSE TRUE

RECURSIVE bst2__is_size_consistent(_)
bst2__is_size_consistent(x) ==
    IF x # None
    THEN IF x[1].n # bst2__size(x[1].left) + bst2__size(x[1].right) + 1 THEN FALSE
         ELSE /\ bst2__is_size_consistent(x[1].left)
              /\ bst2__is_size_consistent(x[1].right)
    ELSE TRUE

bst2_check(t) == bst2__is_bst(t, None, None) /\ bst2__is_size_consistent(t)

RECURSIVE bst2__put(_, _)
bst2__put(new_node, x) ==
    IF x # None
    THEN LET node == x[1]
             d == IF new_node.key < node.key
                    THEN [node EXCEPT !.left = bst2__put(new_node, node.left)]
                  ELSE IF new_node.key > node.key
                    THEN [node EXCEPT !.right = bst2__put(new_node, node.right)]
                  ELSE [node EXCEPT !.val = new_node.val]
         IN  Some([d EXCEPT !.n = 1 + bst2__size(d.left) + bst2__size(d.right)])
    ELSE Some(new_node)

\* a mutating method ends with assert!(self.check()): the table it leaves,
\* or Panic
bst2_put(t, k, v) ==
    LET r == bst2__put(bst2_new(k, v), t)
    IN  IF bst2_check(r) THEN r ELSE Panic

\* extract_min(x) takes the leftmost node out of the link x: the pair of the
\* Link it returns (that node, its right subtree still attached) and of what
\* is left in x; no subtree count is touched
RECURSIVE bst2_extract_min(_)
bst2_extract_min(x) ==
    IF x # None
    THEN IF x[1].left # None
         THEN LET r == bst2_extract_min(x[1].left)
              IN  <<r[1], Some([x[1] EXCEPT !.left = r[2]])>>
         ELSE <<x, None>>
    ELSE <<None, None>>

\* in the arm of a node with two children, *x becomes the Link extract_min
\* returns and the node that was in x is dropped with its subtrees
RECURSIVE bst2__delete(_, _)
bst2__delete(x, k) ==
    IF x # None
    THEN LET node == x[1]
         IN  IF k < node.key
             THEN LET l == bst2__delete(node.left, k)
                  IN  Some([node EXCEPT !.left = l,
                                        !.n = bst2__size(l) + bst2__size(node.right) + 1])
             ELSE IF k > node.key
             THEN LET r == bst2__delete(node.right, k)
                  IN  Some([node EXCEPT !.right = r,
                                        !.n = bst2__size(node.left) + bst2__size(r) + 1])
             ELSE IF node.left = None /\ node.right = None THEN None
             ELSE IF node.right = None THEN node.left
             ELSE IF node.left = None THEN node.right
             ELSE bst2_extract_min(node.right)[1]
    ELSE None

bst2_delete(t, k) ==
    LET r == bst2__delete(t, k)
    IN  IF bst2_check(r) THEN r ELSE Panic

\* in_order that pushes the key of the node before the keys of its left subtree
RECURSIVE bst2_in_order_key_first(_)
bst2_in_order_key_first(node) ==
    <<node.key>>
    \o (IF node.left # None THEN bst2_in_order_key_first(node.left[1]) ELSE << >>)
    \o (IF node.right # None THEN bst2_in_order_key_first(node.right[1]) ELSE << >>)

\* Node::in_order pushes the keys of the subtree onto the result
RECURSIVE bst2_in_order(_)
bst2_in_order(node) ==
    (IF node.left # None THEN bst2_in_order(node.left[1]) ELSE << >>)
    \o <<node.key>>
    \o (IF node.right # None THEN bst2_in_order(node.right[1]) ELSE << >>)

Iter_new(bst) ==
    [queue |-> IF bst # None THEN bst2_in_order(bst[1]) ELSE << >>,
     index |-> 0,
     end   |-> IF bst # None THEN bst[1].n ELSE 0]

bst2_keys(t) == Iter_new(t)

\* Iterator::next: the item and the iterator after the call; queue[index]
\* is an indexing of a Vec, which panics out of bounds
Iter_next(it) ==
    IF it.index < it.end
    THEN [item |-> IF it.index < Len(it.queue)
                   THEN Some(it.queue[it.index + 1]) ELSE Panic,
          it   |-> [it EXCEPT !.index = it.index + 1]]
    ELSE [item |-> None, it |-> it]

\* `for key in st.keys() { v.push(key) }` of tests::keys
RECURSIVE bst2_collect(_, _)
bst2_collect(it, v) ==
    LET r == Iter_next(it)
    IN  IF r.item = None THEN v
        ELSE IF r.item = Panic THEN Panic
        ELSE bst2_collect(r.it, Append(v, r.item[1]))

\* ------------------------------------------------------------------------
\* BST of bst.rs
\* ------------------------------------------------------------------------
bst__size(x) == IF x # None THEN x[1].n ELSE 0

bst_size(t) == bst__size(t)

bst_is_empty(t) == bst_size(t) = 0

RECURSIVE bst__is_bst(_, _, _)
bst__is_bst(x, lo, hi) ==
    IF x # None
    THEN IF lo # None /\ x[1].key <= lo[1] THEN FALSE
         ELSE IF hi # None /\ x[1].key >= hi[1] THEN FALSE
         ELSE /\ bst__is_bst(x[1].left, lo, Some(x[1].key))
              /\ bst__is_bst(x[1].right, Some(x[1].key), hi)
    ELSE TRUE

bst_is_bst(t) == bst__is_bst(t, None, None)

RECURSIVE bst__is_size_consistent(_)
bst__is_size_consistent(x) ==
    IF x # None
    THEN IF x[1].n # bst__size(x[1].left) + bst__size(x[1].right) + 1 THEN FALSE
         ELSE /\ bst__is_size_consistent(x[1].left)
              /\ bst__is_size_consistent(x[1].right)
    ELSE TRUE

bst_is_size_consistent(t) == bst__is_size_consistent(t)

\* check() returns true or panics (it never returns false): FALSE is the
\* panic of one of its two tests
bst_check(t) ==
    IF ~bst_is_bst(t) THEN FALSE
    ELSE IF ~bst_is_size_consistent(t) THEN FALSE
    ELSE bst_is_bst(t) /\ bst_is_size_consistent(t)

RECURSIVE bst__put(_, _)
bst__put(new_node, current) ==
    IF current # None
    THEN LET node == current[1]
             d == IF new_node.key < node.key
                    THEN [node EXCEPT !.left = bst__put(new_node, node.left)]
                  ELSE IF new_node.key > node.key
                    THEN [node EXCEPT !.right = bst__put(new_node, node.right)]
                  ELSE [node EXCEPT !.val = new_node.val]
         IN  Some([d EXCEPT !.n = 1 + bst__size(d.left) + bst__size(d.right)])
    ELSE Some(new_node)

\* the table a mutating method leaves, or Panic where its check() fails
bst_put(t, k, v) ==
    LET r == bst__put([key |-> k, val |-> v, left |-> None, right |-> None, n |-> 1], t)
    IN  IF bst_check(r) THEN r ELSE Panic

RECURSIVE bst__delete_min(_)
bst__delete_min(x) ==
    IF x # None
    THEN LET node == x[1]
         IN  IF node.left = None THEN node.right
             ELSE LET l == bst__delete_min(node.left)
                  IN  Some([node EXCEPT !.left = l,
                                        !.n = bst__size(l) + bst__size(node.right) + 1])
    ELSE x

bst_delete_min(t) ==
    IF bst_is_empty(t) THEN Panic
    ELSE LET r == bst__delete_min(t)
         IN  IF bst_check(r) THEN r ELSE Panic

RECURSIVE bst__delete_max(_)
bst__delete_max(x) ==
    IF x # None
    THEN LET node == x[1]
         IN  IF node.right = None THEN node.left
             ELSE LET r == bst__delete_max(node.right)
                  IN  Some([node EXCEPT !.right = r,
                                        !.n = bst__size(node.left) + bst__size(r) + 1])
    ELSE x

bst_delete_max(t) ==
    IF bst_is_empty(t) THEN Panic
    ELSE LET r == bst__delete_max(t)
         IN  IF bst_check(r) THEN r ELSE Panic

\* extract_max(x) takes the rightmost node out of the subtree of the node x,
\* unless x is that node: the pair of the Link it returns (that node, its
\* left link set to None) and of the node x afterwards; no n is assigned
RECURSIVE bst_extract_max(_)
bst_extract_max(x) ==
    IF x.right # None
    THEN LET t == bst_extract_max(x.right[1])
         IN  IF t[1] # None
             THEN <<t[1], [x EXCEPT !.right = Some(t[2])]>>
             ELSE LET y == x.right[1]
                  IN  <<Some([y EXCEPT !.left = None]), [x EXCEPT !.right = y.left]>>
    ELSE <<None, x>>

\* _delete takes the node x by value and returns the Link that replaces it
RECURSIVE bst__delete(_, _)
bst__delete(x, target) ==
    IF target < x.key
    THEN LET l == IF x.left # None THEN bst__delete(x.left[1], target) ELSE None
         IN  Some([x EXCEPT !.left = l, !.n = bst__size(l) + bst__size(x.right) + 1])
    ELSE IF target > x.key
    THEN LET r == IF x.right # None THEN bst__delete(x.right[1], target) ELSE None
         IN  Some([x EXCEPT !.right = r, !.n = bst__size(x.left) + bst__size(r) + 1])
    ELSE IF x.left = None /\ x.right = None THEN None
    ELSE IF x.right = None THEN x.left
    ELSE IF x.left = None THEN x.right
    ELSE LET e == bst_extract_max(x.left[1])
         IN  IF e[1] # None
             THEN Some([e[1][1] EXCEPT !.left = Some(e[2]), !.right = x.right])
             ELSE Some([e[2] EXCEPT !.right = x.right])

bst_delete(t, target) ==
    IF t # None
    THEN LET r == bst__delete(t[1], target)
         IN  IF bst_check(r) THEN r ELSE Panic
    ELSE t

\* ------------------------------------------------------------------------
\* AVL tree of avl2.rs; a node holds the height of its subtree
\* ------------------------------------------------------------------------
avl_new(k, v) == [key |-> k, val |-> v, height |-> 1, left |-> None, right |-> None]

avl_get_height(link) == IF link = None THEN 0 ELSE link[1].height

avl_update_height(node) ==
    [node EXCEPT !.height = Max(avl_get_height(node.left), avl_get_height(node.right)) + 1]

\* the difference is cast to i8; the heights here are far below 127
avl_balance_factor(node) == avl_get_height(node.left) - avl_get_height(node.right)

avl_get_balance_factor(link) == IF link = None THEN 0 ELSE avl_balance_factor(link[1])

avl_right_rotate(y) ==
    IF y.left # None
    THEN LET x == y.left[1]
             y1 == avl_update_height([y EXCEPT !.left = x.right])
         IN  avl_update_height([x EXCEPT !.right = Some(y1)])
    ELSE y

avl_left_rotate(x) ==
    IF x.right # None
    THEN LET y == x.right[1]
             x1 == avl_update_height([x EXCEPT !.right = y.left])
         IN  avl_update_height([y EXCEPT !.left = Some(x1)])
    ELSE x

RECURSIVE avl_min_key(_)
avl_min_key(x) == IF x.left = None THEN x.key ELSE avl_min_key(x.left[1])

RECURSIVE avl_max_key(_)
avl_max_key(x) == IF x.right = None THEN x.key ELSE avl_max_key(x.right[1])

\* extract_min(x) and extract_min_left(x, left): the pair of the Link that
\* replaces the node x and of the node of the smallest key, taken out; the
\* nodes on the way get update_height, and no re_balance
RECURSIVE avl_extract_min(_)
avl_extract_min_left(x, left) ==
    LET r == avl_extract_min(left)
    IN  <<Some(avl_update_height([x EXCEPT !.left = r[1]])), r[2]>>

avl_extract_min(x) ==
    IF x.left # None
    THEN avl_extract_min_left([x EXCEPT !.left = None], x.left[1])
    ELSE <<x.right, [x EXCEPT !.left = None, !.right = None]>>

\* where bf > 1 the left link is Some and where bf < -1 the right one is,
\* so the unwrap() of the two double rotations returns
avl_re_balance(x0) ==
    LET x == avl_update_height(x0)
        bf == avl_balance_factor(x)
    IN  IF bf > 1 /\ avl_get_balance_factor(x.left) >= 0 THEN avl_right_rotate(x)
        ELSE IF bf < -1 /\ avl_get_balance_factor(x.right) <= 0 THEN avl_left_rotate(x)
        ELSE IF bf > 1 /\ avl_get_balance_factor(x.left) < 0
          THEN avl_right_rotate([x EXCEPT !.left = Some(avl_left_rotate(x.left[1]))])
        ELSE IF bf < -1 /\ avl_get_balance_factor(x.right) > 0
          THEN avl_left_rotate([x EXCEPT !.right = Some(avl_right_rotate(x.right[1]))])
        ELSE x

avl_is_empty(t) == t = None

avl_height(t) == avl_get_height(t)

RECURSIVE avl__get(_, _)
avl__get(x, key) ==
    IF x = None THEN None
    ELSE IF key < x[1].key THEN avl__get(x[1].left, key)
    ELSE IF key = x[1].key THEN Some(x[1].val)
    ELSE avl__get(x[1].right, key)

avl_get(t, key) == avl__get(t, key)

avl_contains(t, key) == avl_get(t, key) # None

RECURSIVE avl__is_balanced(_)
avl__is_balanced(x) ==
    IF x # None
    THEN LET bf == avl_balance_factor(x[1])
         IN  IF (IF bf < 0 THEN -bf ELSE bf) > 1 THEN FALSE
             ELSE avl__is_balanced(x[1].left) /\ avl__is_balanced(x[1].right)
    ELSE TRUE

avl_is_balanced(t) == avl__is_balanced(t)

RECURSIVE avl__is_bst(_, _, _)
avl__is_bst(x, lo, hi) ==
    IF x # None
    THEN /\ x[1].key >= lo /\ x[1].key <= hi
         /\ avl__is_bst(x[1].left, lo, x[1].key)
         /\ avl__is_bst(x[1].right, x[1].key, hi)
    ELSE TRUE

avl_is_bst(t) ==
    IF t = None THEN TRUE ELSE avl__is_bst(t, avl_min_key(t[1]), avl_max_key(t[1]))

\* check() returns, or panics: FALSE is the panic of one of its two tests
avl_check(t) ==
    IF ~avl_is_bst(t) THEN FALSE
    ELSE IF ~avl_is_balanced(t) THEN FALSE
    ELSE TRUE

RECURSIVE avl__put(_, _, _)
avl__put(key, value, current) ==
    IF current = None THEN Some(avl_new(key, value))
    ELSE LET x == current[1]
             x1 == IF key < x.key THEN [x EXCEPT !.left = avl__put(key, value, x.left)]
                   ELSE IF key = x.key THEN [x EXCEPT !.val = value]
                   ELSE [x EXCEPT !.right = avl__put(key, value, x.right)]
         IN  Some(avl_re_balance(x1))

avl_put(t, key, value) ==
    LET r == avl__put(key, value, t)
    IN  IF avl_check(r) THEN r ELSE Panic

RECURSIVE avl__remove(_, _)
avl__remove(key, current) ==
    IF current # None
    THEN LET x == current[1]
         IN  IF key < x.key
               THEN Some(avl_re_balance([x EXCEPT !.left = avl__remove(key, x.left)]))
             ELSE IF key = x.key
               THEN IF x.left = None THEN x.right
                    ELSE IF x.right = None THEN x.left
                    ELSE LET e == avl_extract_min(x.right[1])
                         IN  Some(avl_re_balance([e[2] EXCEPT !.right = e[1],
                                                              !.left = x.left]))
             ELSE Some(avl_re_balance([x EXCEPT !.right = avl__remove(key, x.right)]))
    ELSE None

avl_remove(t, key) ==
    LET r == avl__remove(key, t)
    IN  IF avl_check(r) THEN r ELSE Panic

\* ------------------------------------------------------------------------
\* union-find: quick_find_uf.rs, quick_union_uf.rs, weighted_quick_union_uf.rs
\* a Vec is a function on 0..len-1
\* ------------------------------------------------------------------------
\* ---- quick-find ----
qf_new(n) == [id |-> [i \in 0..(n - 1) |-> i], count |-> n]

qf_count(uf) == uf.count

qf_find(uf, p) == uf.id[p]

qf_connected(uf, p, q) == qf_find(uf, p) = qf_find(uf, q)

qf_union_renames_p_only(uf, p, q) ==
    LET p_id == qf_find(uf, p)
        q_id == qf_find(uf, q)
    IN  IF q_id = p_id THEN uf
        ELSE [id |-> [uf.id EXCEPT ![p] = q_id], count |-> uf.count - 1]

\* the loop compares every id[i] with p_id, read before the loop, and
\* q_id # p_id: an entry the loop has set is not set again
qf_union(uf, p, q) ==
    LET p_id == qf_find(uf, p)
        q_id == qf_find(uf, q)
    IN  IF q_id = p_id THEN uf
        ELSE [id |-> [i \in DOMAIN uf.id |-> IF uf.id[i] = p_id THEN q_id ELSE uf.id[i]],
              count |-> uf.count - 1]

\* ---- quick-union ----
qu_new(n) == [id |-> [i \in 0..(n - 1) |-> i], count |-> n]

qu_count(uf) == uf.count

RECURSIVE qu_find(_, _)
qu_find(uf, p) == IF p # uf.id[p] THEN qu_find(uf, uf.id[p]) ELSE p

qu_connected(uf, p, q) == qu_find(uf, p) = qu_find(uf, q)

qu_union(uf, p, q) ==
    LET p_root == qu_find(uf, p)
        q_root == qu_find(uf, q)
    IN  IF p_root = q_root THEN uf
        ELSE [id |-> [uf.id EXCEPT ![p_root] = q_root], count |-> uf.count - 1]

\* ---- weighted quick-union ----
wqu_new(n) ==
    [id |-> [i \in 0..(n - 1) |-> i], sz |-> [i \in 0..(n - 1) |-> 1], count |-> n]

wqu_count(uf) == uf.count

RECURSIVE wqu_find(_, _)
wqu_find(uf, p) == IF p # uf.id[p] THEN wqu_find(uf, uf.id[p]) ELSE p

wqu_connected(uf, p, q) == wqu_find(uf, p) = wqu_find(uf, q)

wqu_union(uf, p, q) ==
    LET i == wqu_find(uf, p)
        j == wqu_find(uf, q)
    IN  IF i = j THEN uf
        ELSE IF uf.sz[i] < uf.sz[j]
        THEN [uf EXCEPT !.id[i] = j, !.sz[j] = uf.sz[j] + uf.sz[i], !.count = uf.count - 1]
        ELSE [uf EXCEPT !.id[j] = i, !.sz[i] = uf.sz[i] + uf.sz[j], !.count = uf.count - 1]

\* ------------------------------------------------------------------------
\* Queue of queue.rs: a linked list of boxed nodes, `first` owns the chain
\* and `last` is a raw pointer to the node at its end.  A Box is the
\* address of its node (Some(a) is <<a>>), a raw pointer is an address or
\* Null, and the heap maps an address to the node it holds.
\* ------------------------------------------------------------------------
Null == 0
Freed == [item |-> 0, next |-> <<0>>]

queue_new == [first |-> None, last |-> Null, n |-> 0]

queue_is_empty(qu_) == qu_.n = 0

queue_size(qu_) == qu_.n

\* the mutant links the new node behind the first node
queue_enqueue_after_first(heap, qu_, t, a) ==
    IF qu_.last # Null
    THEN IF heap[qu_.last] = Freed THEN [heap |-> Panic, q |-> qu_]
         ELSE [heap |-> [heap EXCEPT ![a] = [item |-> t, next |-> None],
                                     ![qu_.first[1]].next = Some(a)],
               q |-> [qu_ EXCEPT !.last = a]]
    ELSE [heap |-> [heap EXCEPT ![a] = [item |-> t, next |-> None]],
          q |-> [qu_ EXCEPT !.first = Some(a), !.last = a]]

\* enqueue(t), Box::new giving the address a: the heap and the Queue after
\* it.  A write through `last` when no node lives there is undefined
\* behaviour, the heap Panic.  n is not assigned.
queue_enqueue(heap, qu_, t, a) ==
    IF qu_.last # Null
    THEN IF heap[qu_.last] = Freed THEN [heap |-> Panic, q |-> qu_]
         ELSE [heap |-> [heap EXCEPT ![a] = [item |-> t, next |-> None],
                                     ![qu_.last].next = Some(a)],
               q |-> [qu_ EXCEPT !.last = a]]
    ELSE [heap |-> [heap EXCEPT ![a] = [item |-> t, next |-> None]],
          q |-> [qu_ EXCEPT !.first = Some(a), !.last = a]]

\* dequeue(): the heap and the Queue after it, and the Option it returns;
\* the head's Box is dropped at the end of the closure
queue_dequeue(heap, qu_) ==
    IF qu_.first # None
    THEN LET head == heap[qu_.first[1]]
         IN  [heap |-> [heap EXCEPT ![qu_.first[1]] = Freed],
              q |-> [qu_ EXCEPT !.first = head.next,
                                !.last = IF head.next = None THEN Null ELSE qu_.last],
              ret |-> Some(head.item)]
    ELSE [heap |-> heap, q |-> qu_, ret |-> None]

\* ------------------------------------------------------------------------
\* IndexMinPQ of index_min_pq.rs; pq, inverse_pq and keys are Vecs of
\* max_n + 1 entries, functions on 0..max_n; T::default() is 0
\* ------------------------------------------------------------------------
ipq_new(max_n) ==
    [pq |-> [i \in 0..max_n |-> 0], inverse_pq |-> [i \in 0..max_n |-> 0],
     n |-> 0, max_n |-> max_n, keys |-> [i \in 0..max_n |-> 0]]

ipq_is_empty(s) == s.n = 0

\* for i < max_n; elsewhere its assert! fails, which is Panic in the callers
ipq_contains(s, i) == s.inverse_pq[i] # 0

ipq_size(s) == s.n

ipq_greater(s, i, j) == s.keys[s.pq[i]] > s.keys[s.pq[j]]

ipq_exch(s, i, j) ==
    LET pq1 == [s.pq EXCEPT ![i] = s.pq[j], ![j] = s.pq[i]]
        inv1 == [s.inverse_pq EXCEPT ![pq1[i]] = i]
    IN  [s EXCEPT !.pq = pq1, !.inverse_pq = [inv1 EXCEPT ![pq1[j]] = j]]

RECURSIVE ipq_swim(_, _)
ipq_swim(s, index) ==
    IF index > 1 /\ ipq_greater(s, index \div 2, index)
    THEN ipq_swim(ipq_exch(s, index, index \div 2), index \div 2)
    ELSE s

\* the mutant never moves to the right child
RECURSIVE ipq_sink_left_child(_, _)
ipq_sink_left_child(s, index) ==
    IF 2 * index <= s.n
    THEN LET j == 2 * index
         IN  IF ~ipq_greater(s, index, j) THEN s
             ELSE ipq_sink_left_child(ipq_exch(s, index, j), j)
    ELSE s

RECURSIVE ipq_sink(_, _)
ipq_sink(s, index) ==
    IF 2 * index <= s.n
    THEN LET j0 == 2 * index
             j == IF j0 < s.n /\ ipq_greater(s, j0, j0 + 1) THEN j0 + 1 ELSE j0
         IN  IF ~ipq_greater(s, index, j) THEN s
             ELSE ipq_sink(ipq_exch(s, index, j), j)
    ELSE s

ipq_insert(s, i, t) ==
    IF i >= s.max_n \/ ipq_contains(s, i) THEN PanicStruct
    ELSE LET n1 == s.n + 1
         IN  ipq_swim([s EXCEPT !.n = n1, !.inverse_pq[i] = n1, !.pq[n1] = i,
                                !.keys[i] = t], n1)

ipq_min_index(s) == IF s.n = 0 THEN None ELSE Some(s.pq[1])

ipq_min_key(s) == IF s.n = 0 THEN None ELSE Some(s.keys[s.pq[1]])

\* del_min(): the queue after it and the Option it returns; the queue is
\* PanicStruct where the assert_eq! fails
ipq_del_min(s) ==
    IF s.n = 0 THEN [s |-> s, ret |-> None]
    ELSE LET m == s.pq[1]
             s1 == ipq_exch(s, 1, s.n)
             s2 == ipq_sink([s1 EXCEPT !.n = s1.n - 1], 1)
         IN  IF m # s2.pq[s2.n + 1] THEN [s |-> PanicStruct, ret |-> None]
             ELSE [s |-> [s2 EXCEPT !.inverse_pq[m] = 0, !.pq[s2.n + 1] = 0],
                   ret |-> Some(m)]

ipq_key_of(s, i) ==
    IF i >= s.max_n THEN Panic
    ELSE IF ~ipq_contains(s, i) THEN None
    ELSE Some(s.keys[i])

ipq_change_key(s, i, t) ==
    IF i >= s.max_n \/ ~ipq_contains(s, i) THEN PanicStruct
    ELSE LET s1 == [s EXCEPT !.keys[i] = t]
             s2 == ipq_swim(s1, s1.inverse_pq[i])
         IN  ipq_sink(s2, s2.inverse_pq[i])

ipq_decrease_key(s, i, key) ==
    IF i >= s.max_n \/ ~ipq_contains(s, i) THEN PanicStruct
    ELSE IF s.keys[i] <= key THEN PanicStruct
    ELSE LET s1 == [s EXCEPT !.keys[i] = key]
         IN  ipq_swim(s1, s1.inverse_pq[i])

ipq_increase_key(s, i, key) ==
    IF i >= s.max_n \/ ~ipq_contains(s, i) THEN PanicStruct
    ELSE IF s.keys[i] >= key THEN PanicStruct
    ELSE LET s1 == [s EXCEPT !.keys[i] = key]
         IN  ipq_sink(s1, s1.inverse_pq[i])

\* ------------------------------------------------------------------------
\* MaxPQ of max_pq.rs and MinPQ of min_pq.rs: a binary heap in pq[1..n];
\* a Vec is a function on 0..len-1, T::default() is 0
\* ------------------------------------------------------------------------
\* Vec::swap
vec_swap(v, i, j) == [v EXCEPT ![i] = v[j], ![j] = v[i]]

\* Vec::len
vec_len(v) == Cardinality(DOMAIN v)

\* Vec::resize(new_len, value)
vec_resize(v, new_len, value) ==
    [i \in 0..(new_len - 1) |-> IF i \in DOMAIN v THEN v[i] ELSE value]

\* ---- MaxPQ ----
maxpq_new(max_n) == [pq |-> [i \in 0..max_n |-> 0], n |-> 0]

maxpq_is_empty(s) == s.n = 0

maxpq_size(s) == s.n

maxpq_max(s) == IF maxpq_is_empty(s) THEN None ELSE Some(s.pq[1])

RECURSIVE maxpq_swim(_, _)
maxpq_swim(s, index) ==
    IF index > 1 /\ s.pq[index \div 2] < s.pq[index]
    THEN maxpq_swim([s EXCEPT !.pq = vec_swap(s.pq, index \div 2, index)], index \div 2)
    ELSE s

\* the mutant never moves to the right child
RECURSIVE maxpq_sink_left_child(_, _)
maxpq_sink_left_child(s, index) ==
    IF 2 * index <= s.n
    THEN LET j == 2 * index
         IN  IF s.pq[index] > s.pq[j] THEN s
             ELSE maxpq_sink_left_child([s EXCEPT !.pq = vec_swap(s.pq, index, j)], j)
    ELSE s

RECURSIVE maxpq_sink(_, _)
maxpq_sink(s, index) ==
    IF 2 * index <= s.n
    THEN LET j0 == 2 * index
             j == IF j0 < s.n /\ s.pq[j0] < s.pq[j0 + 1] THEN j0 + 1 ELSE j0
         IN  IF s.pq[index] > s.pq[j] THEN s
             ELSE maxpq_sink([s EXCEPT !.pq = vec_swap(s.pq, index, j)], j)
    ELSE s

\* pq[n] is out of bounds when max_n items are held already
maxpq_insert(s, t) ==
    LET n1 == s.n + 1
    IN  IF n1 \notin DOMAIN s.pq THEN PanicStruct
        ELSE maxpq_swim([s EXCEPT !.n = n1, !.pq[n1] = t], n1)

\* del_max(): the queue after it and the Option it returns
maxpq_del_max(s) ==
    IF s.n = 0 THEN [s |-> s, ret |-> None]
    ELSE LET s1 == [s EXCEPT !.pq = vec_swap(s.pq, 1, s.n), !.n = s.n - 1]
         IN  [s |-> maxpq_sink(s1, 1), ret |-> Some(s.pq[1])]

\* ---- MinPQ ----
minpq_new(max_n) == [pq |-> [i \in 0..max_n |-> 0], n |-> 0]

minpq_empty == minpq_new(1)

minpq_is_empty(s) == s.n = 0

minpq_size(s) == s.n

minpq_min(s) == IF minpq_is_empty(s) THEN None ELSE Some(s.pq[1])

RECURSIVE minpq_swim(_, _)
minpq_swim(s, index) ==
    IF index > 1 /\ s.pq[index] < s.pq[index \div 2]
    THEN minpq_swim([s EXCEPT !.pq = vec_swap(s.pq, index \div 2, index)], index \div 2)
    ELSE s

RECURSIVE minpq_sink(_, _)
minpq_sink(s, index) ==
    IF 2 * index <= s.n
    THEN LET j0 == 2 * index
             j == IF j0 < s.n /\ s.pq[j0 + 1] < s.pq[j0] THEN j0 + 1 ELSE j0
         IN  IF s.pq[index] < s.pq[j] THEN s
             ELSE minpq_sink([s EXCEPT !.pq = vec_swap(s.pq, index, j)], j)
    ELSE s

minpq_insert(s, t) ==
    LET pq1 == IF s.n = vec_len(s.pq) - 1
               THEN vec_resize(s.pq, 2 * vec_len(s.pq), 0) ELSE s.pq
        n1 == s.n + 1
    IN  minpq_swim([pq |-> [pq1 EXCEPT ![n1] = t], n |-> n1], n1)

\* del_min(): the queue after it and the Option it returns
minpq_del_min(s) ==
    IF s.n = 0 THEN [s |-> s, ret |-> None]
    ELSE LET s1 == [s EXCEPT !.pq = vec_swap(s.pq, 1, s.n), !.n = s.n - 1]
             s2 == minpq_sink(s1, 1)
         IN  [s |-> IF s2.n > 0 /\ s2.n = vec_len(s2.pq) \div 4
                    THEN [s2 EXCEPT !.pq = vec_resize(s2.pq, vec_len(s2.pq) \div 2, 0)]
                    ELSE s2,
              ret |-> Some(s.pq[1])]

\* ------------------------------------------------------------------------
\* LinearProbingHashST of linear_probing_hash_st.rs; keys and values are
\* Vecs of m Options, functions on 0..m-1.  The hasher is a parameter h of
\* every operation: h[k] is s.finish() for the key k.
\* ------------------------------------------------------------------------
lp_new(capacity) ==
    [n |-> 0, m |-> capacity,
     keys |-> [i \in 0..(capacity - 1) |-> None],
     values |-> [i \in 0..(capacity - 1) |-> None]]

lp_hash_of(h, s, k) == h[k] % s.m

lp_size(s) == s.n

lp_is_empty(s) == s.n = 0

\* the loop of get: from slot i on until k or an empty slot
RECURSIVE lp_get_from(_, _, _)
lp_get_from(s, k, i) ==
    IF s.keys[i] # None
    THEN IF s.keys[i][1] = k THEN s.values[i] ELSE lp_get_from(s, k, (i + 1) % s.m)
    ELSE None

lp_get(h, s, k) == lp_get_from(s, k, lp_hash_of(h, s, k))

lp_contains(h, s, k) == lp_get(h, s, k) # None

\* the loop of put
RECURSIVE lp_put_from(_, _, _, _)
lp_put_from(s, k, v, i) ==
    IF s.keys[i] # None
    THEN IF s.keys[i][1] = k THEN [s EXCEPT !.values[i] = Some(v)]
         ELSE lp_put_from(s, k, v, (i + 1) % s.m)
    ELSE [s EXCEPT !.keys[i] = Some(k), !.values[i] = Some(v), !.n = s.n + 1]

RECURSIVE lp_put(_, _, _, _)
RECURSIVE lp_resize_from(_, _, _, _)

\* the loop of resize from slot i on: the table temp after it
lp_resize_from(h, s, temp, i) ==
    IF i < s.m
    THEN IF s.keys[i] # None
         THEN lp_resize_from(h, s, lp_put(h, temp, s.keys[i][1], s.values[i][1]), i + 1)
         ELSE lp_resize_from(h, s, temp, i + 1)
    ELSE temp

lp_resize(h, s, capacity) == lp_resize_from(h, s, lp_new(capacity), 0)

lp_put(h, s, k, v) ==
    LET s1 == IF s.n >= s.m \div 2 THEN lp_resize(h, s, 2 * s.m) ELSE s
    IN  lp_put_from(s1, k, v, lp_hash_of(h, s1, k))

\* the first loop of delete: the slot of k, which is in the table
RECURSIVE lp_find(_, _, _)
lp_find(s, k, i) ==
    IF s.keys[i] # None /\ s.keys[i][1] # k THEN lp_find(s, k, (i + 1) % s.m) ELSE i

\* the mutant leaves the rest of the cluster where it is
lp_rehash_skipped(h, s, i) == s

\* the second loop of delete from slot i on; both take() are evaluated
\* before the pattern is matched
RECURSIVE lp_rehash(_, _, _)
lp_rehash(h, s, i) ==
    LET s1 == [s EXCEPT !.keys[i] = None, !.values[i] = None]
    IN  IF s.keys[i] # None /\ s.values[i] # None
        THEN LET s2 == lp_put(h, [s1 EXCEPT !.n = s1.n - 1], s.keys[i][1], s.values[i][1])
             IN  lp_rehash(h, s2, (i + 1) % s2.m)
        ELSE s1

lp_delete(h, s, k) ==
    IF ~lp_contains(h, s, k) THEN s
    ELSE LET i == lp_find(s, k, lp_hash_of(h, s, k))
             s1 == [s EXCEPT !.keys[i] = None, !.values[i] = None]
             s2 == lp_rehash(h, s1, (i + 1) % s1.m)
             s3 == [s2 EXCEPT !.n = s2.n - 1]
         IN  IF s3.n > 0 /\ s3.n <= s3.m \div 8 THEN lp_resize(h, s3, s3.m \div 2) ELSE s3

\* ------------------------------------------------------------------------
\* the sort functions of src/sorting.  A slice is a function on 0..len-1;
\* a loop is a recursive operator over the variables the loop assigns.
\* ------------------------------------------------------------------------
\* slice.len()
len(a) == Cardinality(DOMAIN a)

\* &a[from..to]
Slice(a, from, to) == [i \in 0..(to - from - 1) |-> a[from + i]]

\* a[from..from + len(src)].copy_from_slice(src)
CopyInto(a, from, src) ==
    [i \in DOMAIN a |-> IF i >= from /\ i < from + len(src) THEN src[i - from] ELSE a[i]]

\* usize::saturating_sub(1)
saturating_sub1(j) == IF j = 0 THEN 0 ELSE j - 1

Min(x, y) == IF x <= y THEN x ELSE y

\* ---- selection_sort.rs ----
RECURSIVE selection_min(_, _, _)
selection_min(a, m, j) ==
    IF j < len(a) THEN selection_min(a, IF a[j] < a[m] THEN j ELSE m, j + 1) ELSE m

RECURSIVE selection_loop(_, _)
selection_loop(a, i) ==
    IF i < len(a)
    THEN selection_loop(vec_swap(a, i, selection_min(a, i, i + 1)), i + 1)
    ELSE a

selection_sort(a) == selection_loop(a, 0)

\* ---- insertion.rs ----
RECURSIVE insertion_while(_, _)
insertion_while(a, j) ==
    IF j > 0 /\ a[j - 1] > a[j] THEN insertion_while(vec_swap(a, j - 1, j), j - 1) ELSE a

RECURSIVE insertion_for(_, _)
insertion_for(a, i) ==
    IF i < len(a) THEN insertion_for(insertion_while(a, i), i + 1) ELSE a

insertion_sort(a) == insertion_for(a, 1)

RECURSIVE insertion_while2(_, _, _)
insertion_while2(a, key, j) ==
    IF j > 0 /\ a[j - 1] > key
    THEN insertion_while2([a EXCEPT ![j] = a[j - 1]], key, j - 1)
    ELSE [a EXCEPT ![j] = key]

RECURSIVE insertion_for2(_, _)
insertion_for2(a, i) ==
    IF i < len(a) THEN insertion_for2(insertion_while2(a, a[i], i), i + 1) ELSE a

insertion_sort2(a) == insertion_for2(a, 1)

\* ---- shell_sort.rs ----
RECURSIVE shell_gap(_, _)
shell_gap(h, n) == IF h < n \div 3 THEN shell_gap(3 * h + 1, n) ELSE h

RECURSIVE shell_while(_, _, _)
shell_while(a, j, h) ==
    IF j >= h /\ a[j] < a[j - h] THEN shell_while(vec_swap(a, j, j - h), j - h, h) ELSE a

RECURSIVE shell_for(_, _, _)
shell_for(a, i, h) ==
    IF i < len(a) THEN shell_for(shell_while(a, i, h), i + 1, h) ELSE a

RECURSIVE shell_h_sort(_, _)
shell_h_sort(a, h) ==
    IF h >= 1 THEN shell_h_sort(shell_for(a, h, h), h \div 3) ELSE a

shell_sort(a) == shell_h_sort(a, shell_gap(1, len(a)))

\* ---- heap.rs: 1-based, in a copy with one more entry ----
\* sink(&mut arr[..=n], k): the slice ends at index n
RECURSIVE heap_sink(_, _, _)
heap_sink(a, index, n) ==
    IF 2 * index <= n
    THEN LET j0 == 2 * index
             j == IF j0 < n /\ a[j0] < a[j0 + 1] THEN j0 + 1 ELSE j0
         IN  IF a[index] > a[j] THEN a
             ELSE heap_sink(vec_swap(a, index, j), j, n)
    ELSE a

RECURSIVE heap_build(_, _, _)
heap_build(arr, k, n) ==
    IF k >= 1 THEN heap_build(heap_sink(arr, k, n), k - 1, n) ELSE arr

RECURSIVE heap_sortdown(_, _)
heap_sortdown(arr, n) ==
    IF n > 1 THEN heap_sortdown(heap_sink(vec_swap(arr, 1, n), 1, n - 1), n - 1) ELSE arr

heap_sort(a) ==
    LET n == len(a)
        arr == [i \in 0..n |-> IF i = 0 THEN 0 ELSE a[i - 1]]
    IN  Slice(heap_sortdown(heap_build(arr, n \div 2, n), n), 1, n + 1)

\* ---- heap2.rs: 0-based, in place; (n / 2) - 1 needs n >= 2 ----
RECURSIVE heap2_sink(_, _, _)
heap2_sink(a, index, n) ==
    IF 2 * index < n
    THEN LET j0 == 2 * index + 1
             j == IF j0 < n /\ a[j0] < a[j0 + 1] THEN j0 + 1 ELSE j0
         IN  IF a[index] > a[j] THEN a
             ELSE heap2_sink(vec_swap(a, index, j), j, n)
    ELSE a

RECURSIVE heap2_heapify(_, _)
heap2_heapify(a, k) ==
    IF k >= 0 THEN heap2_heapify(heap2_sink(a, k, len(a) - 1), k - 1) ELSE a

RECURSIVE heap2_sortdown(_, _)
heap2_sortdown(a, k) ==
    IF k > 0 THEN heap2_sortdown(heap2_sink(vec_swap(a, 0, k), 0, k - 1), k - 1) ELSE a

heap2_sort(a) ==
    LET n == len(a)
    IN  heap2_sortdown(heap2_heapify(a, (n \div 2) - 1), n - 1)

\* ---- merge.rs: top-down, one auxiliary vector; the pair <<a, aux>> ----
RECURSIVE merge_for(_, _, _, _, _, _, _)
merge_for(a, aux, k, i, j, mid, hi) ==
    IF k <= hi
    THEN IF i > mid THEN merge_for([a EXCEPT ![k] = aux[j]], aux, k + 1, i, j + 1, mid, hi)
         ELSE IF j > hi THEN merge_for([a EXCEPT ![k] = aux[i]], aux, k + 1, i + 1, j, mid, hi)
         ELSE IF aux[j] < aux[i]
              THEN merge_for([a EXCEPT ![k] = aux[j]], aux, k + 1, i, j + 1, mid, hi)
              ELSE merge_for([a EXCEPT ![k] = aux[i]], aux, k + 1, i + 1, j, mid, hi)
    ELSE <<a, aux>>

merge_merge(a, aux, lo, mid, hi) ==
    merge_for(a, CopyInto(aux, lo, Slice(a, lo, hi + 1)), lo, lo, mid + 1, mid, hi)

RECURSIVE merge__sort(_, _, _, _)
merge__sort(a, aux, lo, hi) ==
    IF hi <= lo THEN <<a, aux>>
    ELSE LET mid == lo + (hi - lo) \div 2
             l == merge__sort(a, aux, lo, mid)
             r == merge__sort(l[1], l[2], mid + 1, hi)
         IN  merge_merge(r[1], r[2], lo, mid, hi)

merge_sort(a) == merge__sort(a, a, 0, len(a) - 1)[1]

\* ---- merge2.rs ----
RECURSIVE merge2_for(_, _, _, _, _, _, _)
merge2_for(a, k, i, j, mid, hi, aux) ==
    IF k <= hi
    THEN IF i > mid THEN merge2_for([a EXCEPT ![k] = aux[j]], k + 1, i, j + 1, mid, hi, aux)
         ELSE IF j > hi THEN merge2_for([a EXCEPT ![k] = aux[i]], k + 1, i + 1, j, mid, hi, aux)
         ELSE IF aux[j] < aux[i]
              THEN merge2_for([a EXCEPT ![k] = aux[j]], k + 1, i, j + 1, mid, hi, aux)
              ELSE merge2_for([a EXCEPT ![k] = aux[i]], k + 1, i + 1, j, mid, hi, aux)
    ELSE <<a, aux>>

merge2_merge(a, lo, mid, hi, aux) ==
    merge2_for(a, lo, lo, mid + 1, mid, hi, CopyInto(aux, lo, Slice(a, lo, hi + 1)))

RECURSIVE merge2_merge_sort(_, _, _, _)
merge2_merge_sort(a, lo, hi, aur) ==
    IF hi <= lo THEN <<a, aur>>
    ELSE LET mid == lo + (hi - lo) \div 2
             l == merge2_merge_sort(a, lo, mid, aur)
             r == merge2_merge_sort(l[1], mid + 1, hi, l[2])
         IN  merge2_merge(r[1], lo, mid, hi, r[2])

merge2_sort(a) == merge2_merge_sort(a, 0, len(a) - 1, a)[1]

\* ---- merge_bu.rs: bottom-up on slices ----
RECURSIVE merge_bu_while(_, _, _, _, _, _)
merge_bu_while(left, right, aux, i, j, k) ==
    IF i < len(left) /\ j < len(right)
    THEN IF left[i] <= right[j]
         THEN merge_bu_while(left, right, [aux EXCEPT ![k] = left[i]], i + 1, j, k + 1)
         ELSE merge_bu_while(left, right, [aux EXCEPT ![k] = right[j]], i, j + 1, k + 1)
    ELSE LET a1 == IF i < len(left)
                   THEN CopyInto(aux, k, Slice(left, i, len(left))) ELSE aux
         IN  IF j < len(right) THEN CopyInto(a1, k, Slice(right, j, len(right))) ELSE a1

merge_bu_merge(left, right, aux) == merge_bu_while(left, right, aux, 0, 0, 0)

RECURSIVE merge_bu_inner(_, _, _, _)
merge_bu_inner(a, aux, i, width) ==
    IF i < len(a)
    THEN LET n == len(a)
             hi == Min(i + 2 * width, n)
             mid == Min(i + width, n)
             aux1 == CopyInto(aux, i,
                        merge_bu_merge(Slice(a, i, mid), Slice(a, mid, hi), Slice(aux, i, hi)))
         IN  merge_bu_inner(CopyInto(a, i, Slice(aux1, i, hi)), aux1, i + 2 * width, width)
    ELSE <<a, aux>>

RECURSIVE merge_bu_outer(_, _, _)
merge_bu_outer(a, aux, width) ==
    IF width < len(a)
    THEN LET r == merge_bu_inner(a, aux, 0, width) IN merge_bu_outer(r[1], r[2], width * 2)
    ELSE a

merge_bu_sort(a) == merge_bu_outer(a, a, 1)

\* ---- merge_bu2.rs: bottom-up on indices ----
RECURSIVE merge_bu2_for(_, _, _, _, _, _, _)
merge_bu2_for(a, aux, k, i, j, mid, hi) ==
    IF k <= hi
    THEN IF i > mid THEN merge_bu2_for([a EXCEPT ![k] = aux[j]], aux, k + 1, i, j + 1, mid, hi)
         ELSE IF j > hi THEN merge_bu2_for([a EXCEPT ![k] = aux[i]], aux, k + 1, i + 1, j, mid, hi)
         ELSE IF aux[j] < aux[i]
              THEN merge_bu2_for([a EXCEPT ![k] = aux[j]], aux, k + 1, i, j + 1, mid, hi)
              ELSE merge_bu2_for([a EXCEPT ![k] = aux[i]], aux, k + 1, i + 1, j, mid, hi)
    ELSE <<a, aux>>

merge_bu2_merge(a, aux, lo, mid, hi) ==
    merge_bu2_for(a, CopyInto(aux, lo, Slice(a, lo, hi + 1)), lo, lo, mid + 1, mid, hi)

RECURSIVE merge_bu2_inner(_, _, _, _)
merge_bu2_inner(a, aux, lo, sz) ==
    IF lo < len(a) - sz
    THEN LET r == merge_bu2_merge(a, aux, lo, lo + sz - 1, Min(lo + sz + sz - 1, len(a) - 1))
         IN  merge_bu2_inner(r[1], r[2], lo + sz + sz, sz)
    ELSE <<a, aux>>

RECURSIVE merge_bu2_outer(_, _, _)
merge_bu2_outer(a, aux, sz) ==
    IF sz < len(a)
    THEN LET r == merge_bu2_inner(a, aux, 0, sz) IN merge_bu2_outer(r[1], r[2], sz + sz)
    ELSE a

merge_bu2_sort(a) == merge_bu2_outer(a, a, 1)

\* ---- merge_slice.rs: top-down on slices ----
RECURSIVE merge_slice_while(_, _, _, _, _, _)
merge_slice_while(left, right, aux, i, j, k) ==
    IF i < len(left) /\ j < len(right)
    THEN IF left[i] <= right[j]
         THEN merge_slice_while(left, right, [aux EXCEPT ![k] = left[i]], i + 1, j, k + 1)
         ELSE merge_slice_while(left, right, [aux EXCEPT ![k] = right[j]], i, j + 1, k + 1)
    ELSE LET a1 == IF i < len(left)
                   THEN CopyInto(aux, k, Slice(left, i, len(left))) ELSE aux
         IN  IF j < len(right) THEN CopyInto(a1, k, Slice(right, j, len(right))) ELSE a1

merge_slice_merge(left, right, aux) == merge_slice_while(left, right, aux, 0, 0, 0)

RECURSIVE merge_slice_sort(_)
merge_slice_sort(a) ==
    LET mid == len(a) \div 2
    IN  IF mid = 0 THEN a
        ELSE LET a1 == CopyInto(CopyInto(a, 0, merge_slice_sort(Slice(a, 0, mid))),
                                mid, merge_slice_sort(Slice(a, mid, len(a))))
             IN  merge_slice_merge(Slice(a1, 0, mid), Slice(a1, mid, len(a1)), a1)

\* ---- quick.rs: two scans from the ends; partition is <<a, j>> ----
RECURSIVE quick_scan_i(_, _, _, _)
quick_scan_i(a, i, lo, hi) ==
    IF a[i] < a[lo] THEN (IF i = hi THEN i ELSE quick_scan_i(a, i + 1, lo, hi)) ELSE i

RECURSIVE quick_scan_j(_, _, _)
quick_scan_j(a, j, lo) ==
    IF a[lo] < a[j] THEN (IF j = lo THEN j ELSE quick_scan_j(a, j - 1, lo)) ELSE j

RECURSIVE quick_loop(_, _, _, _, _)
quick_loop(a, i, j, lo, hi) ==
    LET i1 == quick_scan_i(a, i + 1, lo, hi)
        j1 == quick_scan_j(a, j - 1, lo)
    IN  IF i1 >= j1 THEN <<a, j1>>
        ELSE quick_loop(vec_swap(a, i1, j1), i1, j1, lo, hi)

\* the partition that leaves the pivot where the scan from the right stopped
quick_partition_unplaced(a, lo, hi) == quick_loop(a, lo, hi + 1, lo, hi)

quick_partition(a, lo, hi) ==
    LET r == quick_loop(a, lo, hi + 1, lo, hi)
    IN  <<vec_swap(r[1], lo, r[2]), r[2]>>

RECURSIVE quick__sort(_, _, _)
quick__sort(a, lo, hi) ==
    IF hi <= lo THEN a
    ELSE LET p == quick_partition(a, lo, hi)
             j == p[2]
         IN  quick__sort(quick__sort(p[1], lo, saturating_sub1(j)), j + 1, hi)

quick_sort(a) == quick__sort(a, 0, len(a) - 1)

\* ---- quick2.rs: one scan, the pivot is a[hi]; partition is <<a, i>> ----
RECURSIVE quick2_while(_, _, _, _)
quick2_while(a, i, j, hi) ==
    IF j < hi
    THEN IF a[j] < a[hi] THEN quick2_while(vec_swap(a, i, j), i + 1, j + 1, hi)
         ELSE quick2_while(a, i, j + 1, hi)
    ELSE <<a, i>>

quick2_partition(a, lo, hi) ==
    LET r == quick2_while(a, lo, lo, hi)
        b == r[1]
        i == r[2]
    IN  IF b[hi] < b[i] THEN <<vec_swap(b, i, hi), i>> ELSE <<b, i>>

RECURSIVE quick2__sort(_, _, _)
quick2__sort(a, lo, hi) ==
    IF hi <= lo THEN a
    ELSE LET p == quick2_partition(a, lo, hi)
             j == p[2]
             l == IF j > 0 THEN quick2__sort(p[1], lo, j - 1) ELSE p[1]
         IN  quick2__sort(l, j + 1, hi)

quick2_sort(a) == quick2__sort(a, 0, len(a) - 1)

\* ---- quick3.rs: the middle element is the pivot ----
RECURSIVE quick3_for(_, _, _, _, _)
quick3_for(a, last_, i, lo, hi) ==
    IF i <= hi
    THEN IF a[i] < a[lo] THEN quick3_for(vec_swap(a, last_ + 1, i), last_ + 1, i + 1, lo, hi)
         ELSE quick3_for(a, last_, i + 1, lo, hi)
    ELSE <<a, last_>>

RECURSIVE quick3_qsort(_, _, _)
quick3_qsort(a, lo, hi) ==
    IF lo >= hi THEN a
    ELSE LET r == quick3_for(vec_swap(a, lo, (lo + hi) \div 2), lo, lo + 1, lo, hi)
             last_ == r[2]
             b == vec_swap(r[1], lo, last_)
         IN  quick3_qsort(quick3_qsort(b, lo, saturating_sub1(last_)), last_ + 1, hi)

quick3_sort(a) == IF len(a) > 1 THEN quick3_qsort(a, 0, len(a) - 1) ELSE a

\* ---- quick_three_way.rs: the loop is <<a, lt, gt>> ----
RECURSIVE quick_three_way_while(_, _, _, _, _)
quick_three_way_while(a, lt, i, gt, v) ==
    IF i <= gt
    THEN IF a[i] < v THEN quick_three_way_while(vec_swap(a, lt, i), lt + 1, i + 1, gt, v)
         ELSE IF a[i] > v THEN quick_three_way_while(vec_swap(a, i, gt), lt, i, gt - 1, v)
         ELSE quick_three_way_while(a, lt, i + 1, gt, v)
    ELSE <<a, lt, gt>>

RECURSIVE quick_three_way__sort(_, _, _)
quick_three_way__sort(a, lo, hi) ==
    IF hi <= lo THEN a
    ELSE LET r == quick_three_way_while(a, lo, lo + 1, hi, a[lo])
         IN  quick_three_way__sort(
                 quick_three_way__sort(r[1], lo, saturating_sub1(r[2])), r[3] + 1, hi)

quick_three_way_sort(a) == quick_three_way__sort(a, 0, len(a) - 1)

\* the slices the sort functions are run on: every slice of 2..SortLen items
SortInputs == UNION { [0..(n - 1) -> 1..SortItems] : n \in 2..SortLen }

\* ------------------------------------------------------------------------
\* src/graphs: Digraph and the algorithms run on it.  A Vec indexed by a
\* vertex is a function on 0..v-1; a Vec that is only pushed to and iterated
\* (an adjacency list, an order, a stack) is a sequence.
\* ------------------------------------------------------------------------
\* vec![x; n]
vec_of(x, n) == [i \in 0..(n - 1) |-> x]

\* popping a stack until it is empty: the items last to first
RECURSIVE popped(_)
popped(stack) ==
    IF stack = << >> THEN << >>
    ELSE <<stack[Len(stack)]>> \o popped(SubSeq(stack, 1, Len(stack) - 1))

\* ---- digraph.rs ----
digraph_new(v) == [v |-> v, e |-> 0, adj |-> vec_of(<< >>, v), in_degree |-> vec_of(0, v)]

digraph_v(g) == g.v

\* validate_vertex(v) and validate_vertex(w) panic for a vertex that is not below g.v
digraph_add_edge(g, v, w) ==
    IF v >= g.v \/ w >= g.v THEN PanicStruct
    ELSE [g EXCEPT !.adj[v] = Append(@, w), !.in_degree[w] = @ + 1, !.e = @ + 1]

digraph_adj(g, v) == g.adj[v]

digraph_in_degree(g, v) == g.in_degree[v]

RECURSIVE digraph_reverse_for(_, _, _, _)
digraph_reverse_for(g, r, v, i) ==
    IF v >= g.v THEN r
    ELSE IF i > Len(digraph_adj(g, v)) THEN digraph_reverse_for(g, r, v + 1, 1)
    ELSE digraph_reverse_for(g, digraph_add_edge(r, digraph_adj(g, v)[i], v), v, i + 1)

digraph_reverse(g) == digraph_reverse_for(g, digraph_new(g.v), 0, 1)

\* ---- directed_cycle.rs ----
\* the while loop of dfs: the cycle v -> w -> ... -> v, pushed from v back to w
RECURSIVE dc_trace(_, _, _)
dc_trace(dc, x, w) ==
    IF x # w THEN dc_trace([dc EXCEPT !.cycle = Append(@, x)], dc.edge_to[x], w) ELSE dc

RECURSIVE dc_dfs(_, _, _)
RECURSIVE dc_dfs_for(_, _, _, _)
\* the for loop of dfs from the i-th vertex adjacent from v on; a return inside
\* the loop leaves on_stack[v] set
dc_dfs_for(dc, g, v, i) ==
    IF i > Len(digraph_adj(g, v)) THEN [dc EXCEPT !.on_stack[v] = FALSE]
    ELSE IF dc.cycle # << >> THEN dc
    ELSE LET w == digraph_adj(g, v)[i]
         IN  IF ~dc.marked[w]
             THEN dc_dfs_for(dc_dfs([dc EXCEPT !.edge_to[w] = v], g, w), g, v, i + 1)
             ELSE IF dc.on_stack[w]
             THEN dc_dfs_for([dc_trace(dc, v, w) EXCEPT !.cycle = @ \o <<w, v>>], g, v, i + 1)
             ELSE dc_dfs_for(dc, g, v, i + 1)

dc_dfs(dc, g, v) ==
    dc_dfs_for([dc EXCEPT !.on_stack[v] = TRUE, !.marked[v] = TRUE], g, v, 1)

RECURSIVE dc_new_for(_, _, _)
dc_new_for(dc, g, v) ==
    IF v >= digraph_v(g) THEN dc
    ELSE IF ~dc.marked[v] /\ dc.cycle = << >> THEN dc_new_for(dc_dfs(dc, g, v), g, v + 1)
    ELSE dc_new_for(dc, g, v + 1)

dc_new(g) ==
    dc_new_for([marked |-> vec_of(FALSE, g.v), on_stack |-> vec_of(FALSE, g.v),
                edge_to |-> vec_of(0, g.v), cycle |-> << >>], g, 0)

dc_has_cycle(dc) == dc.cycle # << >>

\* ---- dfs_order.rs ----
RECURSIVE dfo_dfs(_, _, _)
RECURSIVE dfo_dfs_for(_, _, _, _)
dfo_dfs_for(o, g, v, i) ==
    IF i > Len(digraph_adj(g, v)) THEN [o EXCEPT !.post = Append(@, v)]
    ELSE LET w == digraph_adj(g, v)[i]
         IN  IF ~o.marked[w] THEN dfo_dfs_for(dfo_dfs(o, g, w), g, v, i + 1)
             ELSE dfo_dfs_for(o, g, v, i + 1)

dfo_dfs(o, g, v) ==
    dfo_dfs_for([o EXCEPT !.pre = Append(@, v), !.marked[v] = TRUE], g, v, 1)

RECURSIVE dfo_new_for(_, _, _)
dfo_new_for(o, g, v) ==
    IF v >= digraph_v(g) THEN o
    ELSE IF ~o.marked[v] THEN dfo_new_for(dfo_dfs(o, g, v), g, v + 1)
    ELSE dfo_new_for(o, g, v + 1)

dfo_new(g) == dfo_new_for([marked |-> vec_of(FALSE, g.v), pre |-> << >>, post |-> << >>], g, 0)

dfo_rev_post(o) == popped(o.post)

\* ---- topological.rs ----
\* rank[*v] = i for (i, v) in order.iter().enumerate()
RECURSIVE topological_rank_for(_, _, _)
topological_rank_for(rank_, order, i) ==
    IF i >= Len(order) THEN rank_
    ELSE topological_rank_for([rank_ EXCEPT ![order[i + 1]] = i], order, i + 1)

\* Topological::new with the order left in postorder
topological_new_post(g) ==
    IF ~dc_has_cycle(dc_new(g))
    THEN LET order == dfo_new(g).post
         IN  [order |-> order, rank |-> topological_rank_for(vec_of(0, g.v), order, 0)]
    ELSE [order |-> << >>, rank |-> << >>]

topological_new(g) ==
    IF ~dc_has_cycle(dc_new(g))
    THEN LET order == dfo_rev_post(dfo_new(g))
         IN  [order |-> order, rank |-> topological_rank_for(vec_of(0, g.v), order, 0)]
    ELSE [order |-> << >>, rank |-> << >>]

topological_has_order(t) == t.order # << >>

topological_order(t) == t.order

topological_rank(t, v) == IF topological_has_order(t) THEN Some(t.rank[v]) ELSE None

\* ---- topological_x.rs ----
\* (0..g.v()).filter(|v| in_degree[*v] == 0).collect()
RECURSIVE topological_x_sources(_, _, _)
topological_x_sources(in_degree, v, n) ==
    IF v >= n THEN << >>
    ELSE (IF in_degree[v] = 0 THEN <<v>> ELSE << >>) \o topological_x_sources(in_degree, v + 1, n)

\* the for loop over the vertices adjacent from v
RECURSIVE topological_x_for(_, _, _, _)
topological_x_for(s, g, v, i) ==
    IF i > Len(digraph_adj(g, v)) THEN s
    ELSE LET w == digraph_adj(g, v)[i]
             d == s.in_degree[w] - 1
         IN  topological_x_for(
                 [s EXCEPT !.in_degree[w] = d,
                           !.queue = IF d = 0 THEN Append(@, w) ELSE @], g, v, i + 1)

RECURSIVE topological_x_while(_, _)
topological_x_while(s, g) ==
    IF s.queue = << >> THEN s
    ELSE LET v == Head(s.queue)
         IN  topological_x_while(
                 topological_x_for(
                     [s EXCEPT !.queue = Tail(@), !.order = Append(@, v),
                               !.ranks[v] = s.count, !.count = @ + 1], g, v, 1), g)

topological_x_new(g) ==
    LET in_degree == [v \in 0..(g.v - 1) |-> digraph_in_degree(g, v)]
        s == topological_x_while(
                 [in_degree |-> in_degree, order |-> << >>, ranks |-> vec_of(0, g.v),
                  count |-> 0, queue |-> topological_x_sources(in_degree, 0, g.v)], g)
    IN  IF s.count # g.v THEN [order |-> << >>, ranks |-> << >>]
        ELSE [order |-> s.order, ranks |-> s.ranks]

topological_x_has_order(t) == t.order # << >>

topological_x_order(t) == t.order

\* ---- kosaraju_scc.rs ----
RECURSIVE kosaraju_dfs(_, _, _)
RECURSIVE kosaraju_dfs_for(_, _, _, _)
kosaraju_dfs_for(scc, g, v, i) ==
    IF i > Len(digraph_adj(g, v)) THEN scc
    ELSE LET w == digraph_adj(g, v)[i]
         IN  IF ~scc.marked[w] THEN kosaraju_dfs_for(kosaraju_dfs(scc, g, w), g, v, i + 1)
             ELSE kosaraju_dfs_for(scc, g, v, i + 1)

kosaraju_dfs(scc, g, v) ==
    kosaraju_dfs_for([scc EXCEPT !.marked[v] = TRUE, !.id[v] = scc.count], g, v, 1)

\* the for loop of new over the vertices of order from the i-th on
RECURSIVE kosaraju_new_for(_, _, _, _)
kosaraju_new_for(scc, g, order, i) ==
    IF i > Len(order) THEN scc
    ELSE IF ~scc.marked[order[i]]
    THEN kosaraju_new_for([kosaraju_dfs(scc, g, order[i]) EXCEPT !.count = @ + 1], g, order, i + 1)
    ELSE kosaraju_new_for(scc, g, order, i + 1)

\* KosarajuSCC::new with the order taken from the digraph, not from its reverse
kosaraju_new_unreversed(g) ==
    kosaraju_new_for([marked |-> vec_of(FALSE, g.v), id |-> vec_of(0, g.v), count |-> 0],
                     g, dfo_rev_post(dfo_new(g)), 1)

kosaraju_new(g) ==
    kosaraju_new_for([marked |-> vec_of(FALSE, g.v), id |-> vec_of(0, g.v), count |-> 0],
                     g, dfo_rev_post(dfo_new(digraph_reverse(g))), 1)

kosaraju_strongly_connected(scc, v, w) == scc.id[v] = scc.id[w]

kosaraju_count(scc) == scc.count

\* ---- naive_scc.rs ----
\* the for loop of bfs over the vertices adjacent from v; s is
\* [result, queue, visited]
RECURSIVE naive_bfs_for(_, _, _, _)
naive_bfs_for(s, g, v, i) ==
    IF i > Len(digraph_adj(g, v)) THEN s
    ELSE LET w == digraph_adj(g, v)[i]
         IN  IF ~s.visited[w]
             THEN naive_bfs_for([result |-> s.result \cup {w}, queue |-> Append(s.queue, w),
                                 visited |-> [s.visited EXCEPT ![w] = TRUE]], g, v, i + 1)
             ELSE naive_bfs_for(s, g, v, i + 1)

RECURSIVE naive_bfs_while(_, _)
naive_bfs_while(s, g) ==
    IF s.queue = << >> THEN s.result
    ELSE naive_bfs_while(naive_bfs_for([s EXCEPT !.queue = Tail(@)], g, Head(s.queue), 1), g)

naive_bfs(g, s) ==
    naive_bfs_while([result |-> {}, queue |-> <<s>>,
                     visited |-> [vec_of(FALSE, g.v) EXCEPT ![s] = TRUE]], g)

naive_component(scc, g, s) ==
    LET reachable == naive_bfs(g, s)
        reaching == naive_bfs(digraph_reverse(g), s)
        both == (reachable \cap reaching) \cup {s}
    IN  [marked |-> [v \in DOMAIN scc.marked |-> scc.marked[v] \/ v \in both],
         id |-> [v \in DOMAIN scc.id |-> IF v \in both THEN scc.count ELSE scc.id[v]],
         count |-> scc.count + 1]

RECURSIVE naive_new_for(_, _, _)
naive_new_for(scc, g, v) ==
    IF v >= digraph_v(g) THEN scc
    ELSE IF ~scc.marked[v] THEN naive_new_for(naive_component(scc, g, v), g, v + 1)
    ELSE naive_new_for(scc, g, v + 1)

naive_new(g) ==
    naive_new_for([marked |-> vec_of(FALSE, g.v), id |-> vec_of(0, g.v), count |-> 0], g, 0)

naive_strongly_connected(scc, v, w) == scc.id[v] = scc.id[w]

naive_count(scc) == scc.count

\* ------------------------------------------------------------------------
\* the state machine
\* ------------------------------------------------------------------------
\* ---- initial states ----
\* each structure after its construction
rb_init ==
    /\ root = None
    /\ set_root = None
    /\ last = << >>
    /\ overwrote = FALSE
    /\ added = {}
    /\ again = FALSE
    /\ asc_root = None
    /\ asc_i = 0

bst2_init ==
    /\ b2_root = None
    /\ b2_map = << >>
    /\ b2_keys = None

bst_init ==
    /\ b1_root = None

avl_init ==
    /\ avl_root = None

uf_init ==
    /\ qf = qf_new(UfN)
    /\ qu = qu_new(UfN)
    /\ wqu = wqu_new(UfN)
    /\ uf_parts = { {s} : s \in 0..(UfN - 1) }

queue_init ==
    /\ q_heap = [a \in 1..QueueCap |-> Freed]
    /\ queue = queue_new
    /\ q_pending = << >>
    /\ q_ret = None
    /\ q_exp = None

ipq_init ==
    /\ ipq = ipq_new(IpqMaxN)
    /\ ipq_map = << >>
    /\ ipq_ret = None

pq_init ==
    /\ maxpq = maxpq_new(MaxPqN)
    /\ minpq = minpq_empty
    /\ pq_bag = [t \in 1..PqItems |-> 0]
    /\ pq_ret = None
    /\ pq_exp = None
    /\ pq_halved = FALSE

lp_init ==
    /\ lp = lp_new(1)
    /\ lp_hash = [k \in 1..LpKeys |-> 0]
    /\ lp_map = << >>
    /\ lp_stage = 0

sort_init ==
    /\ sort_in = << >>
    /\ sort_by = ""
    /\ sort_out = None

dg_init ==
    /\ dg = digraph_new(1)
    /\ topo = None
    /\ topo_x = None
    /\ kscc = None
    /\ nscc = None

Init ==
    /\ rb_init
    /\ bst2_init
    /\ bst_init
    /\ avl_init
    /\ uf_init
    /\ queue_init
    /\ ipq_init
    /\ pq_init
    /\ lp_init
    /\ sort_init
    /\ dg_init

\* a table created with any capacity of 1..LpCap, under any hash function
InitLP ==
    /\ lp \in { lp_new(c) : c \in 1..LpCap }
    /\ lp_hash \in [1..LpKeys -> 0..(LpHashes - 1)]
    /\ lp_map = << >>
    /\ lp_stage = 0
    /\ rb_init
    /\ bst2_init
    /\ bst_init
    /\ avl_init
    /\ uf_init
    /\ queue_init
    /\ ipq_init
    /\ pq_init
    /\ sort_init
    /\ dg_init

\* any slice of 2..SortLen items out of 1..SortItems
InitSort ==
    /\ sort_in \in SortInputs
    /\ sort_by = ""
    /\ sort_out = None
    /\ rb_init
    /\ bst2_init
    /\ bst_init
    /\ avl_init
    /\ uf_init
    /\ queue_init
    /\ ipq_init
    /\ pq_init
    /\ lp_init
    /\ dg_init

\* an empty digraph of 0..DgV vertices
InitDG ==
    /\ dg \in { digraph_new(n) : n \in 0..DgV }
    /\ topo = None
    /\ topo_x = None
    /\ kscc = None
    /\ nscc = None
    /\ rb_init
    /\ bst2_init
    /\ bst_init
    /\ avl_init
    /\ uf_init
    /\ queue_init
    /\ ipq_init
    /\ pq_init
    /\ lp_init
    /\ sort_init

\* ---- actions ----

\* st.put(k, v) on the RedBlackBST; the assert!(self.check()) that ends it
\* is the subject of C1_Integrity
Put(k, v) ==
    /\ root' = put(root, k, v)
    /\ last' = [x \in (DOMAIN last) \cup {k} |-> IF x = k THEN v ELSE last[x]]
    /\ overwrote' = (k \in DOMAIN last /\ last[k] # v)
    /\ UNCHANGED <<set_root, added, again, asc_root, asc_i>>
    /\ UNCHANGED not_rb

\* set.put(k) on the LLRB
SetPut(k) ==
    /\ set_root' = llrb_put(set_root, k)
    /\ added' = added \cup {k}
    /\ again' = (k \in added)
    /\ UNCHANGED <<root, last, overwrote, asc_root, asc_i>>
    /\ UNCHANGED not_rb

\* A run works on one table, a RedBlackBST or an LLRB, as each test of the
\* two files does: the tables are separate objects and no operation of one
\* reads the other.
Next ==
    \/ set_root = None /\ \E k \in Keys, v \in Vals : Put(k, v)
    \/ root = None /\ \E k \in SetKeys : SetPut(k)

Spec == Init /\ [][Next]_vars

\* the height runs: more keys, one value
NextHeight ==
    \/ set_root = None /\ \E k \in 1..HeightKeys : Put(k, 1)
    \/ root = None /\ \E k \in 1..HeightSetKeys : SetPut(k)

SpecHeight == Init /\ [][NextHeight]_vars

\* tests::height of llrb.rs: one iteration of `for i in 0..200 { set.put(i) }`
AscPut ==
    /\ asc_i < HeightTestN
    /\ asc_root' = llrb_put(asc_root, asc_i)
    /\ asc_i' = asc_i + 1
    /\ UNCHANGED <<root, set_root, last, overwrote, added, again>>
    /\ UNCHANGED not_rb

NextAsc == AscPut

SpecAsc == Init /\ [][NextAsc]_vars

\* ---- bst2.rs ----
MapPut(m, k, v) == [x \in (DOMAIN m) \cup {k} |-> IF x = k THEN v ELSE m[x]]
MapDelete(m, k) == [x \in (DOMAIN m) \ {k} |-> m[x]]

\* st.put(k, v)
B2Put(k, v) ==
    /\ b2_root # Panic
    /\ b2_root' = bst2_put(b2_root, k, v)
    /\ b2_map' = MapPut(b2_map, k, v)
    /\ b2_keys' = None
    /\ UNCHANGED not_bst2

\* st.delete(&k)
B2Delete(k) ==
    /\ b2_root # Panic
    /\ b2_root' = bst2_delete(b2_root, k)
    /\ b2_map' = MapDelete(b2_map, k)
    /\ b2_keys' = None
    /\ UNCHANGED not_bst2

\* the loop of tests::keys over st.keys()
B2Keys ==
    /\ b2_root # Panic
    /\ b2_keys = None
    /\ b2_keys' = Some(bst2_collect(bst2_keys(b2_root), << >>))
    /\ UNCHANGED <<b2_root, b2_map>>
    /\ UNCHANGED not_bst2

NextBST2 ==
    \/ \E k \in 1..Bst2Keys, v \in 1..Bst2Vals : B2Put(k, v)
    \/ \E k \in 1..Bst2Keys : B2Delete(k)

SpecBST2 == Init /\ [][NextBST2]_vars

\* tables built by put alone, and their keys()
NextBST2Keys ==
    \/ \E k \in 1..Bst2Keys, v \in 1..Bst2Vals : B2Put(k, v)
    \/ B2Keys

SpecBST2Keys == Init /\ [][NextBST2Keys]_vars

\* ---- bst.rs ----
\* st.put(k, v)
BstPut(k, v) ==
    /\ b1_root # Panic
    /\ b1_root' = bst_put(b1_root, k, v)
    /\ UNCHANGED not_bst

\* st.delete(&k)
BstDelete(k) ==
    /\ b1_root # Panic
    /\ b1_root' = bst_delete(b1_root, k)
    /\ UNCHANGED not_bst

\* st.delete_min() on a table that is not empty
BstDeleteMin ==
    /\ b1_root # Panic
    /\ ~bst_is_empty(b1_root)
    /\ b1_root' = bst_delete_min(b1_root)
    /\ UNCHANGED not_bst

\* st.delete_max() on a table that is not empty
BstDeleteMax ==
    /\ b1_root # Panic
    /\ ~bst_is_empty(b1_root)
    /\ b1_root' = bst_delete_max(b1_root)
    /\ UNCHANGED not_bst

NextBST ==
    \/ \E k \in 1..BstKeys, v \in 1..BstVals : BstPut(k, v)
    \/ \E k \in 1..BstKeys : BstDelete(k)
    \/ BstDeleteMin
    \/ BstDeleteMax

SpecBST == Init /\ [][NextBST]_vars

\* ---- avl2.rs ----
\* st.put(k, v)
AvlPut(k, v) ==
    /\ avl_root # Panic
    /\ avl_root' = avl_put(avl_root, k, v)
    /\ UNCHANGED not_avl

\* st.remove(&k)
AvlRemove(k) ==
    /\ avl_root # Panic
    /\ avl_root' = avl_remove(avl_root, k)
    /\ UNCHANGED not_avl

NextAVL ==
    \/ \E k \in 1..AvlKeys, v \in 1..AvlVals : AvlPut(k, v)
    \/ \E k \in 1..AvlKeys : AvlRemove(k)

SpecAVL == Init /\ [][NextAVL]_vars

\* ---- union-find ----
Sites == 0..(UfN - 1)

\* the classes after one more union: the class of p and the class of q
\* become one
Merge(parts, p, q) ==
    LET a == CHOOSE c \in parts : p \in c
        b == CHOOSE c \in parts : q \in c
    IN  (parts \ {a, b}) \cup {a \cup b}

\* uf.union(p, q), the same call on each of the three structures as in
\* their tests::tiny_uf
UfUnion(p, q) ==
    /\ qf' = qf_union(qf, p, q)
    /\ qu' = qu_union(qu, p, q)
    /\ wqu' = wqu_union(wqu, p, q)
    /\ uf_parts' = Merge(uf_parts, p, q)
    /\ UNCHANGED not_uf

NextUF == \E p \in Sites, q \in Sites : UfUnion(p, q)

SpecUF == Init /\ [][NextUF]_vars

\* ---- queue.rs ----
\* q.enqueue(t); the allocator hands out any address that holds no node
QEnqueue(t) ==
    /\ q_heap # Panic
    /\ \E a \in { b \in 1..QueueCap : q_heap[b] = Freed } :
         LET r == queue_enqueue(q_heap, queue, t, a)
         IN  q_heap' = r.heap /\ queue' = r.q
    /\ q_pending' = Append(q_pending, t)
    /\ UNCHANGED <<q_ret, q_exp>>
    /\ UNCHANGED not_queue

\* q.dequeue()
QDequeue ==
    /\ q_heap # Panic
    /\ LET r == queue_dequeue(q_heap, queue)
       IN  q_heap' = r.heap /\ queue' = r.q /\ q_ret' = Some(r.ret)
    /\ q_exp' = IF q_pending = << >> THEN None ELSE Some(Head(q_pending))
    /\ q_pending' = IF q_pending = << >> THEN << >> ELSE Tail(q_pending)
    /\ UNCHANGED not_queue

NextQueue ==
    \/ \E t \in 1..QueueItems : QEnqueue(t)
    \/ QDequeue

SpecQueue == Init /\ [][NextQueue]_vars

\* ---- index_min_pq.rs ----
\* pq.insert(i, t) for an index that is not in the queue
IpqInsert(i, t) ==
    /\ ipq # PanicStruct
    /\ i \notin DOMAIN ipq_map
    /\ ipq' = ipq_insert(ipq, i, t)
    /\ ipq_map' = MapPut(ipq_map, i, t)
    /\ UNCHANGED ipq_ret
    /\ UNCHANGED not_ipq

\* pq.del_min()
IpqDelMin ==
    /\ ipq # PanicStruct
    /\ LET r == ipq_del_min(ipq)
       IN  /\ ipq' = r.s
           /\ ipq_ret' = Some(r.ret)
           /\ ipq_map' = IF r.ret = None THEN ipq_map ELSE MapDelete(ipq_map, r.ret[1])
    /\ UNCHANGED not_ipq

\* pq.change_key(i, t) for an index that is in the queue
IpqChangeKey(i, t) ==
    /\ ipq # PanicStruct
    /\ i \in DOMAIN ipq_map
    /\ ipq' = ipq_change_key(ipq, i, t)
    /\ ipq_map' = MapPut(ipq_map, i, t)
    /\ UNCHANGED ipq_ret
    /\ UNCHANGED not_ipq

\* pq.decrease_key(i, t) for an index in the queue and a key below its key
IpqDecreaseKey(i, t) ==
    /\ ipq # PanicStruct
    /\ i \in DOMAIN ipq_map /\ t < ipq_map[i]
    /\ ipq' = ipq_decrease_key(ipq, i, t)
    /\ ipq_map' = MapPut(ipq_map, i, t)
    /\ UNCHANGED ipq_ret
    /\ UNCHANGED not_ipq

\* pq.increase_key(i, t) for an index in the queue and a key above its key
IpqIncreaseKey(i, t) ==
    /\ ipq # PanicStruct
    /\ i \in DOMAIN ipq_map /\ t > ipq_map[i]
    /\ ipq' = ipq_increase_key(ipq, i, t)
    /\ ipq_map' = MapPut(ipq_map, i, t)
    /\ UNCHANGED ipq_ret
    /\ UNCHANGED not_ipq

NextIPQ ==
    \/ \E i \in 0..(IpqMaxN - 1), t \in 1..IpqKeys : IpqInsert(i, t)
    \/ IpqDelMin
    \/ \E i \in 0..(IpqMaxN - 1), t \in 1..IpqKeys : IpqChangeKey(i, t)
    \/ \E i \in 0..(IpqMaxN - 1), t \in 1..IpqKeys : IpqDecreaseKey(i, t)
    \/ \E i \in 0..(IpqMaxN - 1), t \in 1..IpqKeys : IpqIncreaseKey(i, t)

SpecIPQ == Init /\ [][NextIPQ]_vars

\* ---- max_pq.rs, min_pq.rs ----
Items == 1..PqItems

BagAdd(b, t) == [b EXCEPT ![t] = b[t] + 1]
BagRemove(b, t) == [b EXCEPT ![t] = b[t] - 1]
BagEmpty(b) == \A t \in DOMAIN b : b[t] = 0
BagMax(b) == CHOOSE t \in DOMAIN b : b[t] > 0 /\ \A u \in DOMAIN b : b[u] > 0 => u <= t
BagMin(b) == CHOOSE t \in DOMAIN b : b[t] > 0 /\ \A u \in DOMAIN b : b[u] > 0 => u >= t

\* pq.insert(t) on the MaxPQ while fewer than max_n items are held
MaxPqInsert(t) ==
    /\ maxpq.n < MaxPqN
    /\ maxpq' = maxpq_insert(maxpq, t)
    /\ pq_bag' = BagAdd(pq_bag, t)
    /\ UNCHANGED <<minpq, pq_ret, pq_exp, pq_halved>>
    /\ UNCHANGED not_pq

\* pq.del_max()
MaxPqDelMax ==
    /\ LET r == maxpq_del_max(maxpq)
       IN  maxpq' = r.s /\ pq_ret' = Some(r.ret)
    /\ pq_exp' = Some(IF BagEmpty(pq_bag) THEN None ELSE Some(BagMax(pq_bag)))
    /\ pq_bag' = IF BagEmpty(pq_bag) THEN pq_bag ELSE BagRemove(pq_bag, BagMax(pq_bag))
    /\ UNCHANGED <<minpq, pq_halved>>
    /\ UNCHANGED not_pq

\* pq.insert(t) on the MinPQ
MinPqInsert(t) ==
    /\ minpq.n < MinPqHeld
    /\ minpq' = minpq_insert(minpq, t)
    /\ pq_bag' = BagAdd(pq_bag, t)
    /\ UNCHANGED <<maxpq, pq_ret, pq_exp, pq_halved>>
    /\ UNCHANGED not_pq

\* pq.del_min()
MinPqDelMin ==
    /\ LET r == minpq_del_min(minpq)
       IN  /\ minpq' = r.s /\ pq_ret' = Some(r.ret)
           /\ pq_halved' = (pq_halved \/ vec_len(r.s.pq) < vec_len(minpq.pq))
    /\ pq_exp' = Some(IF BagEmpty(pq_bag) THEN None ELSE Some(BagMin(pq_bag)))
    /\ pq_bag' = IF BagEmpty(pq_bag) THEN pq_bag ELSE BagRemove(pq_bag, BagMin(pq_bag))
    /\ UNCHANGED maxpq
    /\ UNCHANGED not_pq

\* a run works on one of the two queues
NextPQ ==
    \/ minpq = minpq_empty /\ \E t \in Items : MaxPqInsert(t)
    \/ minpq = minpq_empty /\ MaxPqDelMax
    \/ maxpq = maxpq_new(MaxPqN) /\ \E t \in Items : MinPqInsert(t)
    \/ maxpq = maxpq_new(MaxPqN) /\ MinPqDelMin

SpecPQ == Init /\ [][NextPQ]_vars

\* ---- linear_probing_hash_st.rs ----
\* the slot of the key k in the table s, -1 if it has none
SlotOf(s, k) == IF \E i \in DOMAIN s.keys : s.keys[i] = Some(k)
                THEN CHOOSE i \in DOMAIN s.keys : s.keys[i] = Some(k) ELSE -1

\* the step from the table s to the table t has moved a key to another slot
\* of a table of the same size
Moved(s, t) ==
    /\ t.m = s.m
    /\ \E k \in 1..LpKeys :
         SlotOf(s, k) # -1 /\ SlotOf(t, k) # -1 /\ SlotOf(s, k) # SlotOf(t, k)

\* st.put(k, v)
LpPut(k, v) ==
    /\ lp' = lp_put(lp_hash, lp, k, v)
    /\ lp_map' = MapPut(lp_map, k, v)
    /\ UNCHANGED <<lp_hash, lp_stage>>
    /\ UNCHANGED not_lp

\* st.delete(&k)
LpDelete(k) ==
    /\ lp' = lp_delete(lp_hash, lp, k)
    /\ lp_map' = MapDelete(lp_map, k)
    /\ lp_stage' = IF lp_stage = 0 /\ lp'.m < lp.m THEN 1
                   ELSE IF lp_stage = 1 /\ Moved(lp, lp') THEN 2
                   ELSE lp_stage
    /\ UNCHANGED lp_hash
    /\ UNCHANGED not_lp

NextLP ==
    \/ \E k \in 1..LpKeys, v \in 1..LpVals : LpPut(k, v)
    \/ \E k \in 1..LpKeys : LpDelete(k)

SpecLP == InitLP /\ [][NextLP]_vars

\* ---- the sort functions, each run once on the slice of the initial state ----
SelectionSort ==
    /\ sort_out = None
    /\ sort_out' = Some(selection_sort(sort_in))
    /\ sort_by' = "selection_sort"
    /\ UNCHANGED sort_in
    /\ UNCHANGED not_sort

InsertionSort ==
    /\ sort_out = None
    /\ sort_out' = Some(insertion_sort(sort_in))
    /\ sort_by' = "insertion"
    /\ UNCHANGED sort_in
    /\ UNCHANGED not_sort

InsertionSort2 ==
    /\ sort_out = None
    /\ sort_out' = Some(insertion_sort2(sort_in))
    /\ sort_by' = "insertion::sort2"
    /\ UNCHANGED sort_in
    /\ UNCHANGED not_sort

ShellSort ==
    /\ sort_out = None
    /\ sort_out' = Some(shell_sort(sort_in))
    /\ sort_by' = "shell_sort"
    /\ UNCHANGED sort_in
    /\ UNCHANGED not_sort

HeapSort ==
    /\ sort_out = None
    /\ sort_out' = Some(heap_sort(sort_in))
    /\ sort_by' = "heap"
    /\ UNCHANGED sort_in
    /\ UNCHANGED not_sort

Heap2Sort ==
    /\ sort_out = None
    /\ sort_out' = Some(heap2_sort(sort_in))
    /\ sort_by' = "heap2"
    /\ UNCHANGED sort_in
    /\ UNCHANGED not_sort

MergeSort ==
    /\ sort_out = None
    /\ sort_out' = Some(merge_sort(sort_in))
    /\ sort_by' = "merge"
    /\ UNCHANGED sort_in
    /\ UNCHANGED not_sort

Merge2Sort ==
    /\ sort_out = None
    /\ sort_out' = Some(merge2_sort(sort_in))
    /\ sort_by' = "merge2"
    /\ UNCHANGED sort_in
    /\ UNCHANGED not_sort

MergeBuSort ==
    /\ sort_out = None
    /\ sort_out' = Some(merge_bu_sort(sort_in))
    /\ sort_by' = "merge_bu"
    /\ UNCHANGED sort_in
    /\ UNCHANGED not_sort

MergeBu2Sort ==
    /\ sort_out = None
    /\ sort_out' = Some(merge_bu2_sort(sort_in))
    /\ sort_by' = "merge_bu2"
    /\ UNCHANGED sort_in
    /\ UNCHANGED not_sort

MergeSliceSort ==
    /\ sort_out = None
    /\ sort_out' = Some(merge_slice_sort(sort_in))
    /\ sort_by' = "merge_slice"
    /\ UNCHANGED sort_in
    /\ UNCHANGED not_sort

QuickSort ==
    /\ sort_out = None
    /\ sort_out' = Some(quick_sort(sort_in))
    /\ sort_by' = "quick"
    /\ UNCHANGED sort_in
    /\ UNCHANGED not_sort

Quick2Sort ==
    /\ sort_out = None
    /\ sort_out' = Some(quick2_sort(sort_in))
    /\ sort_by' = "quick2"
    /\ UNCHANGED sort_in
    /\ UNCHANGED not_sort

Quick3Sort ==
    /\ sort_out = None
    /\ sort_out' = Some(quick3_sort(sort_in))
    /\ sort_by' = "quick3"
    /\ UNCHANGED sort_in
    /\ UNCHANGED not_sort

QuickThreeWaySort ==
    /\ sort_out = None
    /\ sort_out' = Some(quick_three_way_sort(sort_in))
    /\ sort_by' = "quick_three_way"
    /\ UNCHANGED sort_in
    /\ UNCHANGED not_sort

NextSort ==
    \/ SelectionSort
    \/ InsertionSort
    \/ InsertionSort2
    \/ ShellSort
    \/ HeapSort
    \/ Heap2Sort
    \/ MergeSort
    \/ Merge2Sort
    \/ MergeBuSort
    \/ MergeBu2Sort
    \/ MergeSliceSort
    \/ QuickSort
    \/ Quick2Sort
    \/ Quick3Sort
    \/ QuickThreeWaySort

SpecSort == InitSort /\ [][NextSort]_vars

\* ---- a digraph is built edge by edge, then handed to the algorithms ----
DgAddEdge ==
    /\ topo = None /\ topo_x = None /\ kscc = None /\ nscc = None
    /\ dg.e < DgE
    /\ \E v \in 0..(dg.v - 1) : \E w \in 0..(dg.v - 1) : dg' = digraph_add_edge(dg, v, w)
    /\ UNCHANGED <<topo, topo_x, kscc, nscc>>
    /\ UNCHANGED not_dg

TopologicalNew ==
    /\ topo = None
    /\ topo' = Some(topological_new(dg))
    /\ UNCHANGED <<dg, topo_x, kscc, nscc>>
    /\ UNCHANGED not_dg

TopologicalXNew ==
    /\ topo_x = None
    /\ topo_x' = Some(topological_x_new(dg))
    /\ UNCHANGED <<dg, topo, kscc, nscc>>
    /\ UNCHANGED not_dg

NextTopo ==
    \/ DgAddEdge
    \/ TopologicalNew
    \/ TopologicalXNew

SpecTopo == InitDG /\ [][NextTopo]_vars

KosarajuNew ==
    /\ kscc = None
    /\ kscc' = Some(kosaraju_new(dg))
    /\ UNCHANGED <<dg, topo, topo_x, nscc>>
    /\ UNCHANGED not_dg

NaiveNew ==
    /\ nscc = None
    /\ nscc' = Some(naive_new(dg))
    /\ UNCHANGED <<dg, topo, topo_x, kscc>>
    /\ UNCHANGED not_dg

NextSCC ==
    \/ DgAddEdge
    \/ KosarajuNew
    \/ NaiveNew

SpecSCC == InitDG /\ [][NextSCC]_vars

\* the runs that put keys again: fewer keys, every value
NextDup ==
    \/ set_root = None /\ \E k \in 1..DupKeys, v \in Vals : Put(k, v)
    \/ root = None /\ \E k \in 1..DupKeys : SetPut(k)

SpecDup == Init /\ [][NextDup]_vars

\* ------------------------------------------------------------------------
\* properties
\* ------------------------------------------------------------------------
\* the nodes of a tree, its keys and its number of nodes
RECURSIVE Subtrees(_)
Subtrees(x) ==
    IF x = None THEN {}
    ELSE {x[1]} \cup Subtrees(x[1].left) \cup Subtrees(x[1].right)

KeysOf(x) == { nd.key : nd \in Subtrees(x) }

RECURSIVE NodeCount(_)
NodeCount(x) ==
    IF x = None THEN 0 ELSE 1 + NodeCount(x[1].left) + NodeCount(x[1].right)

\* the numbers of Black links met on the paths from x down to an empty link
RECURSIVE BlackCounts(_)
BlackCounts(x) ==
    IF x = None THEN {0}
    ELSE { c + (IF x[1].color = "Black" THEN 1 ELSE 0) :
             c \in BlackCounts(x[1].left) \cup BlackCounts(x[1].right) }

IsRed(x) == x # None /\ x[1].color = "Red"

\* I1 symmetric order
I1(x) ==
    \A nd \in Subtrees(x) :
        /\ \A k \in KeysOf(nd.left) : k < nd.key
        /\ \A k \in KeysOf(nd.right) : k > nd.key

\* I2 size consistency
I2(x) == \A nd \in Subtrees(x) : nd.n = NodeCount(Some(nd))

\* I3 perfect black balance
I3(x) == Cardinality(BlackCounts(x)) = 1

\* I4 left-leaning 2-3 shape
I4(x) ==
    \A nd \in Subtrees(x) :
        /\ ~IsRed(nd.right)
        /\ ~(nd.color = "Red" /\ IsRed(nd.left))

\* C1: after every put, on the RedBlackBST and on the LLRB, the tree is in
\* symmetric order (I1), its subtree counts are consistent (I2, RedBlackBST
\* only: an LLRB node has no count), it is perfectly black-balanced (I3) and
\* it is a left-leaning 2-3 tree (I4), and the check() run by put passes.
C1_Integrity ==
    /\ I1(root) /\ I2(root) /\ I3(root) /\ I4(root)
    /\ check(root)
    /\ I1(set_root) /\ I3(set_root) /\ I4(set_root)
    /\ llrb_check(set_root)

\* a RedBlackBST of seven keys that is not the complete tree of seven
\* Black nodes: it has a Red link and is of height 3, and the latest put
\* overwrote a value
C1_Witness ==
    /\ size(root) >= 7 /\ height(root) = 3 /\ overwrote
    /\ \E nd \in Subtrees(root) : nd.color = "Red"

\* C2: contains(k) is true exactly when k is in the table: on the
\* RedBlackBST exactly when get(k) returns a value, on the LLRB exactly when
\* k has been put.
C2_ContainsIffPresent ==
    /\ \A k \in Probes : contains(root, k) <=> (get(root, k) # None)
    /\ \A k \in SetProbes : llrb_contains(set_root, k) <=> (k \in added)

\* C3: get(k) is the value of the most recent put(k, v) for every key that
\* was put and None for every other key, and size() is the number of
\* distinct keys put.
C3_GetPut ==
    /\ \A k \in Probes :
         get(root, k) = IF k \in DOMAIN last THEN Some(last[k]) ELSE None
    /\ size(root) = Cardinality(DOMAIN last)

\* the latest put replaced the value of a key, in a table of three or more
C3_Witness == overwrote /\ size(root) >= 3 /\ size(root) < MaxKey

\* C4: the RedBlackBST supports delete: for every key k of the table some
\* call of a mutating method leaves k absent, every other key with its
\* value, the size one less, I1-I4 in force and the root Black.
C4_DeleteSupported ==
    \A k \in DOMAIN last :
        \E t \in mutations(root) :
            /\ get(t, k) = None
            /\ \A j \in (DOMAIN last) \ {k} : get(t, j) = get(root, j)
            /\ size(t) = size(root) - 1
            /\ I1(t) /\ I2(t) /\ I3(t) /\ I4(t)
            /\ ~IsRed(t)

RECURSIVE Pow2(_)
Pow2(e) == IF e <= 0 THEN 1 ELSE 2 * Pow2(e - 1)

\* h <= 2*log2(n+1), that is 2^h <= (n+1)^2; a height below 0 is below any
\* logarithm of a number >= 1
WithinHeightBound(h, n) == h < 0 \/ Pow2(h) <= (n + 1) * (n + 1)

\* C5: with n distinct keys put, in any order, height() <= 2*log2(n+1), on
\* the RedBlackBST and on the LLRB.
C5_HeightBound ==
    /\ WithinHeightBound(height(root), Cardinality(DOMAIN last))
    /\ WithinHeightBound(llrb_height(set_root), Cardinality(added))

\* a RedBlackBST of twelve keys and of height 4: a binary tree of twelve
\* nodes can be of height 11, above 2*log2(13)
C5_Witness ==
    /\ Cardinality(DOMAIN last) = 12 /\ height(root) = 4

\* C6: select(rank(k)) returns k for every key k of the table.
C6_SelectRank ==
    \A k \in DOMAIN last : select(root, rank(root, k)) = Some(k)

\* the key of rank 4, in the right subtree of a table of six keys
C6_Witness ==
    /\ size(root) >= 6
    /\ \E k \in DOMAIN last :
         /\ k > root[1].key
         /\ rank(root, k) = 4 /\ select(root, 4) = Some(k)

\* C7: rank(k) is the number of keys of the table strictly less than k, for
\* keys in the table and keys not in it.
C7_Rank ==
    \A k \in Probes :
        rank(root, k) = Cardinality({ j \in DOMAIN last : j < k })

\* a key that is not in the table, with keys below it and above it
C7_Witness ==
    \E k \in Probes :
        /\ k \notin DOMAIN last
        /\ rank(root, k) >= 2
        /\ rank(root, k) < size(root)

SetMax(S) == CHOOSE x \in S : \A y \in S : y <= x
SetMin(S) == CHOOSE x \in S : \A y \in S : x <= y

\* C8: floor(k) is the largest key <= k and ceiling(k) the smallest key
\* >= k, each None exactly when the table has no such key.
C8_FloorCeiling ==
    \A k \in Probes :
        LET below == { j \in DOMAIN last : j <= k }
            above == { j \in DOMAIN last : j >= k }
        IN  /\ floor(root, k) = IF below = {} THEN None ELSE Some(SetMax(below))
            /\ ceiling(root, k) = IF above = {} THEN None ELSE Some(SetMin(above))

\* a key that is not in the table whose floor and ceiling both exist, and a
\* key below every key of the table
C8_Witness ==
    /\ size(root) >= 4
    /\ \E k \in Probes :
         /\ k \notin DOMAIN last
         /\ floor(root, k) # None /\ ceiling(root, k) # None
         /\ floor(root, k)[1] + 2 = ceiling(root, k)[1]
    /\ floor(root, 0) = None /\ ceiling(root, MaxKey + 1) = None

\* C9: on an empty table min(), max(), floor(k), ceiling(k) and select(0)
\* return None, and on every table select(r) with r >= size() returns None
\* (a call that failed would not return None).
C9_QueriesNeverFail ==
    /\ root = None =>
         /\ min(root) = None /\ max(root) = None /\ select(root, 0) = None
         /\ \A k \in Probes : floor(root, k) = None /\ ceiling(root, k) = None
    /\ \A r \in size(root)..(size(root) + 2) : select(root, r) = None

\* a table of three or more keys: the last rank selects, the next does not
C9_Witness ==
    /\ size(root) >= 3
    /\ select(root, size(root) - 1) = max(root)
    /\ select(root, size(root)) = None

\* C10 as stated: after the keys 0..199 were put in ascending order,
\* height() is 8.
C10_Height8 == asc_i = HeightTestN => llrb_height(asc_root) = 8

\* C10: after the keys 0..199 were put in ascending order into an empty
\* LLRB, height() is 7, the value tests::height asserts.
C10_Height7 == asc_i = HeightTestN => llrb_height(asc_root) = 7

\* the loop of tests::height has run to its end
C10_Witness == asc_i = HeightTestN /\ NodeCount(asc_root) = HeightTestN

\* ---- bst2.rs ----
Bst2Probes == 0..(Bst2Keys + 1)

\* C11: a delete(k) on the BST of bst2.rs leaves k absent, drops size() by
\* exactly 1 when k was present (also when its node had two children) and
\* keeps every other key with its value; a delete of an absent key changes
\* nothing.
C11_DeleteRemovesOneKey ==
    [][ \A k \in 1..Bst2Keys :
          B2Delete(k) =>
            /\ ~bst2_contains(b2_root', k)
            /\ bst2_size(b2_root') =
                 bst2_size(b2_root) - (IF bst2_contains(b2_root, k) THEN 1 ELSE 0)
            /\ \A j \in Bst2Probes \ {k} : bst2_get(b2_root', j) = bst2_get(b2_root, j)
            /\ ~bst2_contains(b2_root, k) => b2_root' = b2_root ]_vars

\* C14: on a table built by put alone (the empty one included), keys()
\* yields every key of the table once, in strictly ascending order, size()
\* keys in all, and the table is as it was.
C14_KeysAscending ==
    b2_keys # None =>
        LET ks == b2_keys[1]
        IN  /\ ks # Panic
            /\ Len(ks) = bst2_size(b2_root)
            /\ \A i \in 1..(Len(ks) - 1) : ks[i] < ks[i + 1]
            /\ { ks[i] : i \in 1..Len(ks) } = DOMAIN b2_map
            /\ \A k \in Bst2Probes :
                 bst2_get(b2_root, k) =
                   IF k \in DOMAIN b2_map THEN Some(b2_map[k]) ELSE None

\* the keys of a table of four keys whose root has two children
C14_Witness ==
    /\ b2_keys # None /\ Len(b2_keys[1]) = 4
    /\ b2_root[1].left # None /\ b2_root[1].right # None

\* ---- bst.rs ----
\* C12: after any sequence of put, delete, delete_min and delete_max (the
\* last two on tables that are not empty) on the BST of bst.rs, every node's
\* n is 1 + size(left) + size(right) and the tree is in symmetric order, so
\* the check() at the end of each mutation never fails.
C12_CheckNeverFails ==
    /\ b1_root # Panic
    /\ bst_is_size_consistent(b1_root)
    /\ bst_is_bst(b1_root)

\* ---- avl2.rs ----
\* the height of a subtree, counted from its links
RECURSIVE TrueHeight(_)
TrueHeight(x) ==
    IF x = None THEN 0 ELSE 1 + Max(TrueHeight(x[1].left), TrueHeight(x[1].right))

RECURSIVE HeightsDifferByOne(_)
HeightsDifferByOne(x) ==
    \/ x = None
    \/ /\ TrueHeight(x[1].left) - TrueHeight(x[1].right) \in {-1, 0, 1}
       /\ HeightsDifferByOne(x[1].left)
       /\ HeightsDifferByOne(x[1].right)

RECURSIVE AvlKeysOf(_)
AvlKeysOf(x) ==
    IF x = None THEN {} ELSE {x[1].key} \cup AvlKeysOf(x[1].left) \cup AvlKeysOf(x[1].right)

RECURSIVE SymmetricOrder(_)
SymmetricOrder(x) ==
    \/ x = None
    \/ /\ \A k \in AvlKeysOf(x[1].left) : k < x[1].key
       /\ \A k \in AvlKeysOf(x[1].right) : k > x[1].key
       /\ SymmetricOrder(x[1].left)
       /\ SymmetricOrder(x[1].right)

\* C13: after every put and every remove on the AVL tree of avl2.rs the
\* tree is in symmetric order and at every node the heights of the left and
\* the right subtree differ by at most 1, so its check() never fails.
C13_AvlBalanced ==
    /\ avl_root # Panic
    /\ SymmetricOrder(avl_root)
    /\ HeightsDifferByOne(avl_root)

\* ---- union-find ----
Related(p, q) == \E c \in uf_parts : p \in c /\ q \in c

\* C15: for quick-find, quick-union and weighted quick-union alike, after
\* any sequence of union calls connected(p, q) is true exactly when p and q
\* are related by the reflexive-symmetric-transitive closure of the unions
\* performed, and count() is the number of equivalence classes.
C15_UnionFind ==
    /\ \A p \in Sites, q \in Sites :
         /\ qf_connected(qf, p, q) <=> Related(p, q)
         /\ qu_connected(qu, p, q) <=> Related(p, q)
         /\ wqu_connected(wqu, p, q) <=> Related(p, q)
    /\ qf_count(qf) = Cardinality(uf_parts)
    /\ qu_count(qu) = Cardinality(uf_parts)
    /\ wqu_count(wqu) = Cardinality(uf_parts)

\* at least two unions have joined classes: some sites are connected and
\* some are not
C15_Witness ==
    /\ Cardinality(uf_parts) = UfN - 2
    /\ \E p \in Sites, q \in Sites, r \in Sites :
         /\ p # q /\ Related(p, q) /\ ~Related(p, r)
         /\ qf_connected(qf, p, q) /\ ~wqu_connected(wqu, p, r)
         /\ qu.id[p] # p

\* ---- queue.rs ----
\* C16: for any interleaving of enqueue and dequeue, dequeue returns the
\* items in the order they were enqueued (the oldest item not dequeued
\* yet), and None exactly when every enqueued item has been dequeued.
C16_Fifo ==
    /\ q_heap # Panic
    /\ q_ret # None => q_ret[1] = q_exp

\* a dequeue took an item while two others, enqueued after it and different
\* from it, wait in the queue
C16_Witness ==
    /\ q_ret # None /\ q_ret[1] # None
    /\ Len(q_pending) >= 2
    /\ q_pending[1] # q_ret[1][1]
    /\ queue.last # queue.first[1]

\* ---- index_min_pq.rs ----
\* the index i is in the map m and no index of m has a smaller key
MinimalIn(m, i) == i \in DOMAIN m /\ \A j \in DOMAIN m : m[i] <= m[j]

\* the queries on the queue s agree with the map m
IpqAgrees(s, m) ==
    /\ s # PanicStruct
    /\ ipq_min_index(s) = None <=> m = << >>
    /\ ipq_min_index(s) # None => MinimalIn(m, ipq_min_index(s)[1])
    /\ \A i \in 0..(IpqMaxN - 1) :
         /\ ipq_contains(s, i) <=> i \in DOMAIN m
         /\ ipq_key_of(s, i) = IF i \in DOMAIN m THEN Some(m[i]) ELSE None

\* C17: after any sequence of insert, del_min, change_key, decrease_key and
\* increase_key on IndexMinPQ (an index is inserted only while absent),
\* min_index() and del_min() return an index whose key is minimal among the
\* indices in the queue, contains(i) is true exactly for the indices
\* inserted and not deleted since, and key_of(i) is their latest key.
C17_IndexMinPQ ==
    [][ /\ IpqAgrees(ipq', ipq_map')
        /\ IpqDelMin =>
             IF ipq_map = << >> THEN ipq_ret' = Some(None)
             ELSE /\ ipq_ret'[1] # None
                  /\ MinimalIn(ipq_map, ipq_ret'[1][1])
                  /\ ipq_map' = MapDelete(ipq_map, ipq_ret'[1][1]) ]_vars

\* a del_min has returned an index from a full queue, after a change of key
\* had brought it to the front past an index inserted before it
C17_Witness ==
    /\ ipq_ret # None /\ ipq_ret[1] # None
    /\ ipq_ret[1][1] = IpqMaxN - 1
    /\ ipq.n = IpqMaxN - 1
    /\ ipq.keys[IpqMaxN - 1] < ipq.keys[0]
    /\ \A i \in DOMAIN ipq_map : ipq_map[i] > ipq.keys[IpqMaxN - 1]

\* ---- max_pq.rs, min_pq.rs ----
\* how many times each item is in pq[1..n]
HeapBag(s) == [t \in Items |-> Cardinality({ i \in 1..s.n : s.pq[i] = t })]

\* C18: for MaxPQ (while at most max_n items are held) and MinPQ (across
\* its resizes), after any sequence of inserts and deletes, del_max /
\* del_min returns a largest / smallest item of the queue, removes one
\* occurrence of it and leaves the other items, and returns None exactly
\* when the queue is empty.
C18_PriorityQueues ==
    /\ maxpq # PanicStruct /\ minpq # PanicStruct
    /\ \/ minpq = minpq_empty /\ HeapBag(maxpq) = pq_bag
       \/ maxpq = maxpq_new(MaxPqN) /\ HeapBag(minpq) = pq_bag
    /\ pq_ret = pq_exp

\* the MinPQ has grown to 8 entries and a del_min has halved its Vec; the
\* latest del_min returned an item of which the queue holds one more
C18_Witness ==
    /\ pq_halved /\ vec_len(minpq.pq) = 4 /\ minpq.n = 2
    /\ pq_ret # None /\ pq_ret[1] # None
    /\ pq_bag[pq_ret[1][1]] = 1

\* ---- linear_probing_hash_st.rs ----
\* C19: for any sequence of put and delete on a LinearProbingHashST created
\* with a capacity of at least 1, and for any hash function, get(k) is the
\* value put last for k if k has not been deleted since and None otherwise,
\* and size() is the number of keys present, also across doublings,
\* halvings and the re-insertion of a cluster after a delete.
C19_HashTable ==
    /\ \A k \in 1..LpKeys :
         lp_get(lp_hash, lp, k) = IF k \in DOMAIN lp_map THEN Some(lp_map[k]) ELSE None
    /\ lp_size(lp) = Cardinality(DOMAIN lp_map)

\* a delete has halved the table and a later delete has moved a key of a
\* cluster; the table has doubled since and holds two keys that collide
C19_Witness ==
    /\ lp_stage = 2 /\ lp.m >= 8
    /\ \E j \in DOMAIN lp_map, k \in DOMAIN lp_map :
         j # k /\ lp_hash_of(lp_hash, lp, j) = lp_hash_of(lp_hash, lp, k)

\* ---- C20 ----
Ascending(a) == \A i \in DOMAIN a : \A j \in DOMAIN a : i <= j => a[i] <= a[j]

Occurrences(a, x) == Cardinality({ i \in DOMAIN a : a[i] = x })

PermutationOf(a, b) ==
    /\ DOMAIN a = DOMAIN b
    /\ \A x \in 1..SortItems : Occurrences(a, x) = Occurrences(b, x)

Descending(a) == \A i \in DOMAIN a : \A j \in DOMAIN a : i <= j => a[i] >= a[j]

\* C20: whichever sort function of src/sorting runs on a slice of two or more
\* items (repeated items, ascending and descending slices included), the slice
\* afterwards is in ascending order and is a permutation of the slice before.
C20_SortsSort ==
    sort_out # None =>
        /\ len(sort_in) >= 2
        /\ Ascending(sort_out[1])
        /\ PermutationOf(sort_out[1], sort_in)

\* quick::sort has sorted a descending slice of the greatest length that
\* holds a repeated item and every item
C20_Witness ==
    /\ sort_by = "quick"
    /\ sort_out # None
    /\ len(sort_in) = SortLen
    /\ Descending(sort_in)
    /\ \A x \in 1..SortItems : Occurrences(sort_in, x) >= 1
    /\ sort_in[0] = sort_in[1]
    /\ Ascending(sort_out[1])
    /\ sort_out[1] # sort_in

\* ---- C21 ----
Vertices(g) == 0..(g.v - 1)

HasEdge(g, v, w) == \E i \in 1..Len(g.adj[v]) : g.adj[v][i] = w

\* there is a directed path of 1..n edges from v to w
RECURSIVE PathWithin(_, _, _, _)
PathWithin(g, v, w, n) ==
    /\ n >= 1
    /\ \/ HasEdge(g, v, w)
       \/ \E x \in Vertices(g) : HasEdge(g, v, x) /\ PathWithin(g, x, w, n - 1)

HasDirectedCycle(g) == \E v \in Vertices(g) : PathWithin(g, v, v, g.v)

\* order lists every vertex once, the tail of every edge before its head
IsTopologicalOrder(g, order) ==
    /\ Len(order) = g.v
    /\ \A v \in Vertices(g) : \E i \in 1..Len(order) : order[i] = v
    /\ \A i \in 1..Len(order) : \A j \in 1..Len(order) :
           HasEdge(g, order[i], order[j]) => i < j

\* C21: for a digraph of one or more vertices, Topological and TopologicalX
\* have an order exactly when the digraph has no directed cycle, and then
\* order() lists every vertex once with v before w for every edge v->w.
C21_TopologicalOrder ==
    /\ dg # PanicStruct
    /\ topo # None /\ dg.v >= 1 =>
           /\ topological_has_order(topo[1]) <=> ~HasDirectedCycle(dg)
           /\ topological_has_order(topo[1]) => IsTopologicalOrder(dg, topological_order(topo[1]))
    /\ topo_x # None /\ dg.v >= 1 =>
           /\ topological_x_has_order(topo_x[1]) <=> ~HasDirectedCycle(dg)
           /\ topological_x_has_order(topo_x[1]) =>
                  IsTopologicalOrder(dg, topological_x_order(topo_x[1]))

\* both have ordered a digraph with the most vertices and edges, found two
\* different orders, and the order of the depth-first search is not 0, 1, 2, ...
C21_Witness ==
    /\ topo # None /\ topo_x # None
    /\ dg.v = DgV /\ dg.e = DgE
    /\ topological_has_order(topo[1])
    /\ topological_x_has_order(topo_x[1])
    /\ topological_order(topo[1]) # topological_x_order(topo_x[1])
    /\ topological_order(topo[1])[1] # 0

\* both have refused a digraph whose only cycle does not pass through vertex 0
C21_WitnessCycle ==
    /\ topo # None /\ topo_x # None
    /\ ~topological_has_order(topo[1])
    /\ ~topological_x_has_order(topo_x[1])
    /\ ~PathWithin(dg, 0, 0, dg.v)
    /\ dg.in_degree[0] = 0

\* ---- C22 ----
Reaches(g, v, w) == v = w \/ PathWithin(g, v, w, g.v)

StronglyConnected(g, v, w) == Reaches(g, v, w) /\ Reaches(g, w, v)

StrongComponents(g) ==
    { { w \in Vertices(g) : StronglyConnected(g, v, w) } : v \in Vertices(g) }

\* C22: KosarajuSCC and NaiveSCC compute the same partition of any digraph:
\* in each, strongly_connected(v, w) is true exactly when v reaches w and w
\* reaches v, and count() is the number of strong components.
C22_StrongComponents ==
    /\ kscc # None =>
           /\ \A v \in Vertices(dg) : \A w \in Vertices(dg) :
                  kosaraju_strongly_connected(kscc[1], v, w) <=> StronglyConnected(dg, v, w)
           /\ kosaraju_count(kscc[1]) = Cardinality(StrongComponents(dg))
    /\ nscc # None =>
           /\ \A v \in Vertices(dg) : \A w \in Vertices(dg) :
                  naive_strongly_connected(nscc[1], v, w) <=> StronglyConnected(dg, v, w)
           /\ naive_count(nscc[1]) = Cardinality(StrongComponents(dg))
    /\ kscc # None /\ nscc # None =>
           /\ \A v \in Vertices(dg) : \A w \in Vertices(dg) :
                  kosaraju_strongly_connected(kscc[1], v, w)
                      <=> naive_strongly_connected(nscc[1], v, w)
           /\ kosaraju_count(kscc[1]) = naive_count(nscc[1])

\* both have run on a digraph with a component of two vertices and a vertex
\* outside it that reaches the component, and they number the components
\* differently
C22_Witness ==
    /\ kscc # None /\ nscc # None
    /\ dg.v = DgV
    /\ kosaraju_count(kscc[1]) = dg.v - 1
    /\ \E v \in Vertices(dg) : \E w \in Vertices(dg) :
           /\ v # w
           /\ kosaraju_strongly_connected(kscc[1], v, w)
           /\ naive_strongly_connected(nscc[1], v, w)
    /\ \E v \in Vertices(dg) : \E w \in Vertices(dg) :
           /\ Reaches(dg, v, w) /\ ~Reaches(dg, w, v)
           /\ ~kosaraju_strongly_connected(kscc[1], v, w)
    /\ kscc[1].id # nscc[1].id

\* ---- C23 ----
\* the tree x with the value at key k replaced by v and nothing else changed
RECURSIVE WithValue(_, _, _)
WithValue(x, k, v) ==
    IF x = None THEN None
    ELSE IF k < x[1].key THEN Some([x[1] EXCEPT !.left = WithValue(x[1].left, k, v)])
    ELSE IF k > x[1].key THEN Some([x[1] EXCEPT !.right = WithValue(x[1].right, k, v)])
    ELSE Some([x[1] EXCEPT !.val = v])

\* C23: a put of a key that is already in the tree changes no link, no
\* color and no subtree size: a RedBlackBST afterwards is the tree before
\* with the new value at that key, an LLRB afterwards is the tree before.
C23_DuplicatePut ==
    [][ /\ \A k \in 1..DupKeys : \A v \in Vals :
              (Put(k, v) /\ k \in DOMAIN last) => root' = WithValue(root, k, v)
        /\ \A k \in 1..DupKeys :
              (SetPut(k) /\ k \in added) => set_root' = set_root ]_vars

\* a put has just given a new value to a key held by a red node that is not
\* the root, in a RedBlackBST of DupKeys keys
C23_Witness ==
    /\ overwrote
    /\ size(root) = DupKeys
    /\ \E k \in DOMAIN last :
           /\ k # root[1].key
           /\ \/ (root[1].left # None /\ root[1].left[1].key = k /\ is_red(root[1].left))
              \/ (root[1].left # None /\ root[1].left[1].left # None
                  /\ root[1].left[1].left[1].key = k /\ is_red(root[1].left[1].left))
              \/ (root[1].right # None /\ root[1].right[1].left # None
                  /\ root[1].right[1].left[1].key = k /\ is_red(root[1].right[1].left))
           /\ get(root, k) = Some(last[k])
           /\ \A v \in Vals : v # last[k] => put(root, k, v) # root

\* ---- C24 ----
\* the nodes _put(new_node, h) hands to flip_color, each as it is at the call:
\* after the rotations of its level, where the flip step changes it
RECURSIVE FlipCalls(_, _)
FlipCalls(new_node, h) ==
    IF h = None THEN {}
    ELSE LET node == h[1]
             below == IF new_node.key < node.key THEN FlipCalls(new_node, node.left)
                      ELSE IF new_node.key > node.key THEN FlipCalls(new_node, node.right)
                      ELSE {}
             d == IF new_node.key < node.key
                    THEN [node EXCEPT !.left = _put(new_node, node.left)]
                  ELSE IF new_node.key > node.key
                    THEN [node EXCEPT !.right = _put(new_node, node.right)]
                  ELSE [node EXCEPT !.val = new_node.val]
             a == fix_right(fix_left(d))
         IN  below \cup (IF fix_flip(a) # a THEN {a} ELSE {})

RECURSIVE llrb_FlipCalls(_, _)
llrb_FlipCalls(new_node, h) ==
    IF h = None THEN {}
    ELSE LET node == h[1]
         IN  IF new_node.key = node.key THEN {}
             ELSE LET below == IF new_node.key < node.key
                                 THEN llrb_FlipCalls(new_node, node.left)
                               ELSE llrb_FlipCalls(new_node, node.right)
                      d == IF new_node.key < node.key
                             THEN [node EXCEPT !.left = llrb__put(new_node, node.left)]
                           ELSE [node EXCEPT !.right = llrb__put(new_node, node.right)]
                      a == llrb_fix_right(llrb_fix_left(d))
                  IN  below \cup (IF llrb_fix_flip(a) # a THEN {a} ELSE {})

\* both children present and Red, the node Black
FlipPrecondition(a) ==
    /\ a.left # None /\ a.right # None
    /\ a.left[1].color = "Red" /\ a.right[1].color = "Red"
    /\ a.color = "Black"

\* C24: every node that a put on a red-black tree hands to flip_color has
\* both children, both Red, and is itself Black, whatever puts came before.
C24_FlipColor ==
    /\ \A k \in 1..HeightKeys : \A a \in FlipCalls(new(k, 1), root) : FlipPrecondition(a)
    /\ \A k \in 1..HeightSetKeys :
           \A a \in llrb_FlipCalls(llrb_new(k), set_root) : FlipPrecondition(a)

\* a tree of eight or more keys whose root has a Red left child, in which
\* the put of one more key flips colors at two levels, below the root first
C24_Witness ==
    /\ size(root) >= 8
    /\ is_red(root[1].left)
    /\ \E k \in 1..HeightKeys :
           /\ get(root, k) = None
           /\ Cardinality(FlipCalls(new(k, 1), root)) >= 2
           /\ \E a \in FlipCalls(new(k, 1), root) : a.key # put(root, k, 1)[1].key

====
